---- MODULE Spec2Model ----
(***************************************************************************)
(* Template Analyzer of the resume maker: TemplateAnalyzer (the pixel      *)
(* pipeline and its shared canvas / analysisResults object) together with  *)
(* the part of ResumeBuilderApp that drives it (processTemplateFile,       *)
(* reset).                                                                 *)
(*                                                                         *)
(* Representation.  An ImageData is [width, height, data] where data is    *)
(* the sequence of pixels [r, g, b, a] in row-major order: the byte at     *)
(* index 4*p + c of the source's Uint8ClampedArray is channel c of         *)
(* data[p + 1].  JavaScript strings are sequences of one-character         *)
(* strings, so that formatting and parsing are computed, not assumed.      *)
(* Objects that the source shares by reference (the analysisResults        *)
(* object) live in a heap and are named by their index.                    *)
(***************************************************************************)
EXTENDS Integers, Sequences, FiniteSets, TLC

VARIABLES
    imageData,      \* PaletteSpec, PixelSpec: the ImageData handed to the function
    colorPalette,   \* PaletteSpec: the palette it produced
    stage,          \* PaletteSpec, MergeSpec, PixelSpec: "input" | "done"
    rawRegions,     \* MergeSpec: the raw regions handed to mergeTextRegions
    adjacent,       \* AdjacencySpec: what areRegionsAdjacent returned, both ways round
    pixelResults,   \* MergeSpec, PixelSpec: the analysisResults object produced
    canvas,         \* TemplateAnalyzer.canvas: [width, height, data]
    heap,           \* the analysisResults objects ever allocated, by reference
    analysisResults,\* TemplateAnalyzer.analysisResults: a reference into heap
    calls,          \* the analyzeTemplate calls, by call id
    currentTemplate,\* ResumeBuilderApp.currentTemplate: a reference or NoObject
    templateAnalysis,\* PreviewEngine.templateAnalysis: a reference or NoObject
    resumePage,     \* the .resume-page element of the preview: its content and styles
    notification,   \* the notifications the handler that ran last showed, in order
    loading         \* whether the loading indicator is shown

paletteVars == <<imageData, colorPalette, stage, rawRegions, adjacent, pixelResults>>
analyzerVars == <<canvas, heap, analysisResults, calls, currentTemplate, templateAnalysis,
                  resumePage,
                  notification, loading>>
vars == <<imageData, colorPalette, stage, rawRegions, adjacent, pixelResults, canvas, heap, analysisResults, calls,
          currentTemplate, templateAnalysis, resumePage, notification, loading>>

\* null in a slot that otherwise holds an object, and the reference that
\* refers to no object (heap indices start at 1).
Null == [null |-> TRUE]
NoObject == 0

Min(a, b) == IF a < b THEN a ELSE b
Max(a, b) == IF a > b THEN a ELSE b

(***************************************************************************)
(* Number <-> string conversions of the JavaScript runtime.                *)
(***************************************************************************)
Digits == <<"0", "1", "2", "3", "4", "5", "6", "7", "8", "9",
            "a", "b", "c", "d", "e", "f">>

RECURSIVE ToStringRadix(_, _)
\* Number.prototype.toString(radix) of a non-negative integer (lowercase).
ToStringRadix(n, radix) ==
    IF n < radix THEN <<Digits[n + 1]>>
    ELSE ToStringRadix(n \div radix, radix) \o <<Digits[(n % radix) + 1]>>

DigitValue(ch) == (CHOOSE i \in 1..16 : Digits[i] = ch) - 1

RECURSIVE ParseRadix(_, _)
\* The non-negative integer a digit string denotes in the given radix.
ParseRadix(s, radix) ==
    IF Len(s) = 0 THEN 0
    ELSE ParseRadix(SubSeq(s, 1, Len(s) - 1), radix) * radix + DigitValue(s[Len(s)])

RECURSIVE Split(_, _)
\* String.prototype.split(sep) for a one-character separator.
Split(s, sep) ==
    IF \E i \in 1..Len(s) : s[i] = sep
    THEN LET i == CHOOSE k \in 1..Len(s) : s[k] = sep /\ \A m \in 1..(k - 1) : s[m] # sep
         IN  <<SubSeq(s, 1, i - 1)>> \o Split(SubSeq(s, i + 1, Len(s)), sep)
    ELSE <<s>>

\* n << k.  The operands here are 1 << 24 and an 8-bit channel << 16 or 8, so
\* every result is below 2^25 and the 32-bit wrap of << never takes place.
ShiftLeft(n, k) == n * (2 ^ k)

(***************************************************************************)
(* TemplateAnalyzer.rgbToHex                                               *)
(***************************************************************************)
rgbToHexUnpadded(r, g, b) ==
    <<"#">> \o ToStringRadix(r, 16) \o ToStringRadix(g, 16) \o ToStringRadix(b, 16)

rgbToHex(r, g, b) ==
    LET n == ShiftLeft(1, 24) + ShiftLeft(r, 16) + ShiftLeft(g, 8) + b
        s == ToStringRadix(n, 16)
    IN  <<"#">> \o SubSeq(s, 2, Len(s))

(***************************************************************************)
(* TemplateAnalyzer.extractColorPalette                                    *)
(***************************************************************************)
sampleRate == 10
BucketWidth == 20
AlphaThreshold == 128
PaletteSize == 8

QuantizeNone(v) == v

\* Math.floor(v/20)*20
Quantize(v) == (v \div BucketWidth) * BucketWidth

SkipSampleZeroAlphaOnly(px) == px.a = 0

\* if (a < 128) continue;
SkipSample(px) == px.a < AlphaThreshold

\* `${...},${...},${...}`
colorKey(px) ==
    ToStringRadix(Quantize(px.r), 10) \o <<",">> \o
    ToStringRadix(Quantize(px.g), 10) \o <<",">> \o
    ToStringRadix(Quantize(px.b), 10)

\* colorMap after the sampling loop
\*   for (let i = 0; i < data.length; i += 4 * sampleRate) { ... }
\* as the sequence of its entries.  A Map keeps its keys in insertion order,
\* so the entries come in the order in which their keys were first sampled,
\* and colorMap.set(key, (colorMap.get(key) || 0) + 1) leaves in each the
\* number of kept samples with that key.
CountSamples(data) ==
    LET nsamples == (Len(data) + sampleRate - 1) \div sampleRate
        kept == SelectSeq([k \in 1..nsamples |-> data[(k - 1) * sampleRate + 1]],
                          LAMBDA px : ~SkipSample(px))
        keys == [k \in 1..Len(kept) |-> colorKey(kept[k])]
        firsts == SelectSeq([k \in 1..Len(keys) |-> k],
                            LAMBDA k : \A j \in 1..(k - 1) : keys[j] # keys[k])
    IN  [e \in 1..Len(firsts) |->
            [key |-> keys[firsts[e]],
             count |-> Cardinality({j \in 1..Len(keys) : keys[j] = keys[firsts[e]]})]]

ComesBeforeAscending(a, b) == a.count <= b.count

\* The comparator (a, b) => b[1] - a[1] under a stable sort: a stays in
\* front of a later b unless b counts strictly more.
ComesBefore(a, b) == a.count >= b.count

RECURSIVE SortEntries(_)
\* Array.prototype.sort (stable) with the comparator above, as an insertion
\* sort that keeps the order of equal counts.
SortEntries(s) ==
    IF Len(s) <= 1 THEN s
    ELSE LET init == SortEntries(SubSeq(s, 1, Len(s) - 1))
             e    == s[Len(s)]
             \* e goes behind the leading entries that come before it
             pos  == IF \A i \in 1..Len(init) : ComesBefore(init[i], e)
                     THEN Len(init)
                     ELSE (CHOOSE i \in 1..Len(init) :
                              /\ ~ComesBefore(init[i], e)
                              /\ \A m \in 1..(i - 1) : ComesBefore(init[m], e)) - 1
         IN  SubSeq(init, 1, pos) \o <<e>> \o SubSeq(init, pos + 1, Len(init))

\* .slice(0, 8)
SliceTop(s) == SubSeq(s, 1, Min(PaletteSize, Len(s)))

\* ([color, count]) => { const [r, g, b] = color.split(',').map(Number); ... }
Swatch(entry) ==
    LET parts == Split(entry.key, ",")
        r == ParseRadix(parts[1], 10)
        g == ParseRadix(parts[2], 10)
        b == ParseRadix(parts[3], 10)
    IN  [rgb |-> <<"r", "g", "b", "(">> \o ToStringRadix(r, 10) \o <<",", " ">> \o
                 ToStringRadix(g, 10) \o <<",", " ">> \o ToStringRadix(b, 10) \o <<")">>,
         hex |-> rgbToHex(r, g, b),
         frequency |-> entry.count]

extractColorPalette(img) ==
    LET sortedColors == SliceTop(SortEntries(CountSamples(img.data)))
    IN  [i \in 1..Len(sortedColors) |-> Swatch(sortedColors[i])]

(***************************************************************************)
(* TemplateAnalyzer.getGrayscale, in thousandths: 0.299 R + 0.587 G +      *)
(* 0.114 B is getGrayscale(px) / 1000.  The source computes it in double   *)
(* precision; the two agree on every comparison against 30, 200 and 240    *)
(* unless the exact value lies on the threshold itself.                    *)
(***************************************************************************)
getGrayscale(px) == 299 * px.r + 587 * px.g + 114 * px.b

Abs(v) == IF v < 0 THEN -v ELSE v

RECURSIVE GCD(_, _)
GCD(a, b) == IF b = 0 THEN a ELSE GCD(b, a % b)

\* Numbers that are not integers are kept as fractions in lowest terms;
\* 0/0 stands for NaN.
NaN == [num |-> 0, den |-> 0]
Fraction(n, d) ==
    IF d = 0 THEN NaN
    ELSE LET g == GCD(Abs(n), Abs(d)) IN [num |-> n \div g, den |-> d \div g]
FracGreater(a, b) ==
    /\ a.den # 0
    /\ b.den # 0
    /\ a.num * b.den > b.num * a.den
FracTimes(a, b) ==
    IF a.den = 0 \/ b.den = 0 THEN NaN ELSE Fraction(a.num * b.num, a.den * b.den)

(***************************************************************************)
(* TemplateAnalyzer.calculateTextScore                                     *)
(***************************************************************************)
EdgeThreshold == 30
TextThresholdBelowZero == Fraction(-1, 10)
TextThreshold == Fraction(3, 10)

calculateTextScore(data, x, y, size, width) ==
    LET \* the (dx, dy) the two loops reach without `continue`
        visited ==
            {d \in (0..(size - 2)) \X (0..(size - 2)) :
                LET idx      == (y + d[2]) * width + (x + d[1])
                    nextIdx  == (y + d[2]) * width + (x + d[1] + 1)
                    belowIdx == (y + d[2] + 1) * width + (x + d[1])
                IN  ~(idx >= Len(data) \/ nextIdx >= Len(data) \/ belowIdx >= Len(data))}
        current(d) == getGrayscale(data[(y + d[2]) * width + (x + d[1]) + 1])
        right(d)   == getGrayscale(data[(y + d[2]) * width + (x + d[1] + 1) + 1])
        below(d)   == getGrayscale(data[(y + d[2] + 1) * width + (x + d[1]) + 1])
        horizontalEdge(d) == Abs(current(d) - right(d))
        verticalEdge(d)   == Abs(current(d) - below(d))
        edgeCount ==
            Cardinality({d \in visited :
                horizontalEdge(d) > EdgeThreshold * 1000
                    \/ verticalEdge(d) > EdgeThreshold * 1000})
        totalPixels == Cardinality(visited)
        contrast(d) == Max(horizontalEdge(d), verticalEdge(d))
        RECURSIVE RowSum(_, _)
        RowSum(dy, dx) ==
            IF dx > size - 2 THEN 0
            ELSE (IF <<dx, dy>> \in visited THEN contrast(<<dx, dy>>) ELSE 0)
                    + RowSum(dy, dx + 1)
        RECURSIVE BlockSum(_)
        BlockSum(dy) == IF dy > size - 2 THEN 0 ELSE RowSum(dy, 0) + BlockSum(dy + 1)
        contrastSum == BlockSum(0)
        \* Math.min(edgeRatio * 2, 1) and Math.min(avgContrast / 100, 1)
        edgeFactor == Fraction(Min(2 * edgeCount, totalPixels), totalPixels)
        contrastFactor ==
            Fraction(Min(contrastSum, 100000 * totalPixels), 100000 * totalPixels)
    IN  FracTimes(edgeFactor, contrastFactor)

(***************************************************************************)
(* TemplateAnalyzer.areRegionsAdjacent, calculateBoundingBox,              *)
(* mergeTextRegions                                                        *)
(***************************************************************************)
AdjacencyThreshold == 30

areRegionsAdjacentNoTolerance(region1, region2) ==
    LET horizontalOverlap ==
            ~(region1.x + region1.width < region2.x \/ region2.x + region2.width < region1.x)
        verticalOverlap ==
            ~(region1.y + region1.height < region2.y \/ region2.y + region2.height < region1.y)
    IN  horizontalOverlap /\ verticalOverlap

areRegionsAdjacentBelowThreshold(region1, region2) ==
    LET horizontalOverlap ==
            ~(region1.x + region1.width <= region2.x - AdjacencyThreshold
                \/ region2.x + region2.width <= region1.x - AdjacencyThreshold)
        verticalOverlap ==
            ~(region1.y + region1.height <= region2.y - AdjacencyThreshold
                \/ region2.y + region2.height <= region1.y - AdjacencyThreshold)
    IN  horizontalOverlap /\ verticalOverlap

areRegionsAdjacent(region1, region2) ==
    LET horizontalOverlap ==
            ~(region1.x + region1.width < region2.x - AdjacencyThreshold
                \/ region2.x + region2.width < region1.x - AdjacencyThreshold)
        verticalOverlap ==
            ~(region1.y + region1.height < region2.y - AdjacencyThreshold
                \/ region2.y + region2.height < region1.y - AdjacencyThreshold)
    IN  horizontalOverlap /\ verticalOverlap

calculateBoundingBoxOfFirst(regions) == regions[1]

\* regions is a non-empty sequence.
calculateBoundingBox(regions) ==
    LET I == 1..Len(regions)
        minX == CHOOSE v \in {regions[i].x : i \in I} : \A i \in I : v <= regions[i].x
        minY == CHOOSE v \in {regions[i].y : i \in I} : \A i \in I : v <= regions[i].y
        maxX == CHOOSE v \in {regions[i].x + regions[i].width : i \in I} :
                    \A i \in I : v >= regions[i].x + regions[i].width
        maxY == CHOOSE v \in {regions[i].y + regions[i].height : i \in I} :
                    \A i \in I : v >= regions[i].y + regions[i].height
        best == CHOOSE i \in I :
                    \A j \in I : ~FracGreater(regions[j].confidence, regions[i].confidence)
    IN  [x |-> minX, y |-> minY, width |-> maxX - minX, height |-> maxY - minY,
         confidence |-> regions[best].confidence]

RECURSIVE MergeFrom(_, _, _, _)
\* The outer loop of mergeTextRegions at index i (1-based), with the set
\* `used` and the blocks merged so far.
MergeFrom(regions, i, used, merged) ==
    IF i > Len(regions) THEN merged
    ELSE IF i \in used THEN MergeFrom(regions, i + 1, used, merged)
    ELSE LET absorbed == {j \in (i + 1)..Len(regions) :
                             j \notin used /\ areRegionsAdjacent(regions[i], regions[j])}
             members == {i} \cup absorbed
             group == SelectSeq([k \in 1..Len(regions) |-> k], LAMBDA k : k \in members)
         IN  MergeFrom(regions, i + 1, used \cup members,
                       Append(merged,
                              calculateBoundingBox([k \in 1..Len(group) |->
                                                       regions[group[k]]])))

mergeTextRegionsWithoutVisited(regions) ==
    [i \in 1..Len(regions) |->
        LET group == SelectSeq([k \in 1..Len(regions) |-> k],
                               LAMBDA k : k = i \/ (k > i /\ areRegionsAdjacent(regions[i],
                                                                               regions[k])))
        IN  calculateBoundingBox([k \in 1..Len(group) |-> regions[group[k]]])]

mergeTextRegions(regions) == MergeFrom(regions, 1, {}, <<>>)

(***************************************************************************)
(* TemplateAnalyzer.detectTextRegions (the value it stores in              *)
(* analysisResults.layout.textBlocks)                                      *)
(***************************************************************************)
blockSize == 20

\* The values v = 0, step, 2 step, ... with v < limit, as a count.
StepsBelow(limit, step) == IF limit <= 0 THEN 0 ELSE ((limit - 1) \div step) + 1

\* The local textRegions of detectTextRegions when its loops have ended.
textRegions(img) ==
    LET nx == StepsBelow(img.width - blockSize, blockSize)
        ny == StepsBelow(img.height - blockSize, blockSize)
        \* the cells in the order the two loops visit them: y outer, x inner
        cells == [k \in 1..(nx * ny) |->
                    LET x == ((k - 1) % nx) * blockSize
                        y == ((k - 1) \div nx) * blockSize
                    IN  [x |-> x, y |-> y, width |-> blockSize, height |-> blockSize,
                         confidence |->
                             calculateTextScore(img.data, x, y, blockSize, img.width)]]
    IN  SelectSeq(cells, LAMBDA c : FracGreater(c.confidence, TextThreshold))

detectTextRegions(img) == mergeTextRegions(textRegions(img))

(***************************************************************************)
(* TemplateAnalyzer.detectSections                                         *)
(***************************************************************************)
ContentBrightness == 240

Pixel(img, x, y) == img.data[y * img.width + x + 1]

horizontalProfileBright(img, y) ==
    Cardinality({x \in 0..(img.width - 1) :
                    getGrayscale(Pixel(img, x, y)) >= ContentBrightness * 1000})

horizontalProfile(img, y) ==
    Cardinality({x \in 0..(img.width - 1) :
                    getGrayscale(Pixel(img, x, y)) < ContentBrightness * 1000})

SectionToBottom(img, start, h) ==
    [type |-> "content", x |-> 0, y |-> start, width |-> img.width,
     height |-> img.height - start]

Section(img, start, h) ==
    [type |-> "content", x |-> 0, y |-> start, width |-> img.width, height |-> h]

\* The boundary loop of detectSections and the flush after it.  A section
\* is pushed at the first row y without content after a run of rows with
\* content (when the run is higher than 5% of the image), and for a run that
\* is still open when the loop ends (whatever its height); y = height stands
\* for the flush.  sectionStart is the first row of the run.
detectSections(img) ==
    LET hasContent == {y \in 0..(img.height - 1) :
                          \* horizontalProfile[y] > width * 0.1
                          10 * horizontalProfile(img, y) > img.width}
        sectionStart(y) ==
            CHOOSE s \in 0..(y - 1) :
                /\ \A u \in s..(y - 1) : u \in hasContent
                /\ s = 0 \/ (s - 1) \notin hasContent
        closes(y) ==
            /\ y >= 1
            /\ (y - 1) \in hasContent
            /\ y \notin hasContent
            \* sectionHeight > height * 0.05
            /\ y < img.height => 20 * (y - sectionStart(y)) > img.height
        ends == SelectSeq([y \in 1..img.height |-> y], closes)
    IN  [k \in 1..Len(ends) |->
            Section(img, sectionStart(ends[k]), ends[k] - sectionStart(ends[k]))]

(***************************************************************************)
(* TemplateAnalyzer.detectGridStructure                                    *)
(***************************************************************************)
RECURSIVE SortNumbers(_)
\* .sort((a, b) => a - b)
SortNumbers(s) ==
    IF Len(s) <= 1 THEN s
    ELSE LET init == SortNumbers(SubSeq(s, 1, Len(s) - 1))
             e == s[Len(s)]
             pos == Cardinality({i \in 1..Len(init) : init[i] <= e})
         IN  SubSeq(init, 1, pos) \o <<e>> \o SubSeq(init, pos + 1, Len(init))

RECURSIVE Unique(_)
\* [...new Set(s)]: the first occurrence of every value, in order
Unique(s) ==
    IF Len(s) = 0 THEN s
    ELSE LET init == Unique(SubSeq(s, 1, Len(s) - 1))
         IN  IF \E i \in 1..Len(init) : init[i] = s[Len(s)] THEN init
             ELSE Append(init, s[Len(s)])

\* Math.round(x / 10) * 10 for x >= 0
RoundToTen(x) == ((x + 5) \div 10) * 10

CeilDiv(a, b) == (a + b - 1) \div b

detectGridStructureEmptyRows(textBlocks) ==
    [columns |-> 1, rows |-> Len(textBlocks),
     gutters |-> [horizontal |-> Fraction(0, 1), vertical |-> 0]]

detectGridStructure(textBlocks) ==
    IF Len(textBlocks) < 2
    THEN [columns |-> 1, rows |-> 1,
          gutters |-> [horizontal |-> Fraction(0, 1), vertical |-> 0]]
    ELSE LET leftAlignments == SortNumbers([i \in 1..Len(textBlocks) |-> textBlocks[i].x])
             uniqueLefts ==
                 Unique([i \in 1..Len(leftAlignments) |-> RoundToTen(leftAlignments[i])])
             topAlignments == SortNumbers([i \in 1..Len(textBlocks) |-> textBlocks[i].y])
             \* the gaps topAlignments[i] - topAlignments[i-1] add up to last - first
             gapSum == topAlignments[Len(topAlignments)] - topAlignments[1]
             avgVerticalGap == Fraction(gapSum, Len(topAlignments) - 1)
         IN  [columns |-> Len(uniqueLefts),
              rows |-> CeilDiv(Len(textBlocks), Len(uniqueLefts)),
              gutters |->
                 [horizontal |-> avgVerticalGap,
                  vertical |-> IF Len(uniqueLefts) > 1
                               THEN uniqueLefts[2] - uniqueLefts[1] ELSE 0]]

(***************************************************************************)
(* TemplateAnalyzer.detectMargins                                          *)
(***************************************************************************)
RowHasContent(img, y) ==
    \E x \in 0..(img.width - 1) :
        getGrayscale(Pixel(img, x, y)) < ContentBrightness * 1000
ColumnHasContent(img, x) ==
    \E y \in 0..(img.height - 1) :
        getGrayscale(Pixel(img, x, y)) < ContentBrightness * 1000

detectMarginsFromEdge(img) ==
    LET rows == {y \in 0..(img.height - 1) : RowHasContent(img, y)}
        cols == {x \in 0..(img.width - 1) : ColumnHasContent(img, x)}
        first(S) == CHOOSE v \in S : \A u \in S : v <= u
        last(S)  == CHOOSE v \in S : \A u \in S : v >= u
    IN  [top    |-> IF rows = {} THEN 0 ELSE first(rows),
         bottom |-> IF rows = {} THEN 0 ELSE img.height - last(rows),
         left   |-> IF cols = {} THEN 0 ELSE first(cols),
         right  |-> IF cols = {} THEN 0 ELSE img.width - last(cols)]

detectMargins(img) ==
    LET rows == {y \in 0..(img.height - 1) : RowHasContent(img, y)}
        cols == {x \in 0..(img.width - 1) : ColumnHasContent(img, x)}
        first(S) == CHOOSE v \in S : \A u \in S : v <= u
        last(S)  == CHOOSE v \in S : \A u \in S : v >= u
    IN  [top    |-> IF rows = {} THEN 0 ELSE first(rows),
         bottom |-> IF rows = {} THEN 0 ELSE img.height - 1 - last(rows),
         left   |-> IF cols = {} THEN 0 ELSE first(cols),
         right  |-> IF cols = {} THEN 0 ELSE img.width - 1 - last(cols)]

(***************************************************************************)
(* TemplateAnalyzer.detectDesignElements                                   *)
(***************************************************************************)
DarkBrightness == 200
RowStep == 5

\* brightness < 200
Dark(img, x, y) == getGrayscale(Pixel(img, x, y)) < DarkBrightness * 1000

\* lineStart when the inner loop of detectDesignElements stands at column x
\* of row y with the pixels before it dark: the first column of that run.
LineStart(img, x, y) ==
    CHOOSE s \in 0..(x - 1) :
        /\ \A u \in s..(x - 1) : Dark(img, u, y)
        /\ s = 0 \/ ~Dark(img, s - 1, y)

\* The else branch at column x of row y pushes a line: the pixel is not
\* dark and the run of dark pixels before it is longer than 10% of the
\* width.  A run that is still open when x reaches the width is never
\* pushed: the loop ends without looking at lineLength again.
PushesLine(img, x, y) ==
    /\ x >= 1
    /\ ~Dark(img, x, y)
    /\ Dark(img, x - 1, y)
    \* lineLength > width * 0.1
    /\ 10 * (x - LineStart(img, x, y)) > img.width

\* The lines in the order the loops push them: rows 0, 5, 10, ... and the
\* columns of a row from left to right.
detectDesignElements(img) ==
    LET nrows == (img.height + RowStep - 1) \div RowStep
        at == SelectSeq([i \in 1..(nrows * img.width) |->
                            [x |-> (i - 1) % img.width,
                             y |-> ((i - 1) \div img.width) * RowStep]],
                        LAMBDA c : PushesLine(img, c.x, c.y))
    IN  [horizontalLines |->
            [k \in 1..Len(at) |->
                [x |-> LineStart(img, at[k].x, at[k].y), y |-> at[k].y,
                 length |-> at[k].x - LineStart(img, at[k].x, at[k].y),
                 thickness |-> 1]],
         verticalLines |-> <<>>, shapes |-> <<>>]

(***************************************************************************)
(* TemplateAnalyzer.analyzeTextContent (the value it stores in             *)
(* analysisResults.fonts): Array.from(new Set(...)) of the items' font     *)
(* names, an item without fontName ("" here) being passed over.            *)
(***************************************************************************)
analyzeTextContent(items) ==
    Unique(SelectSeq([i \in 1..Len(items) |-> items[i].fontName],
                     LAMBDA f : f # ""))

(***************************************************************************)
(* The canvas: assigning canvas.width / canvas.height clears the bitmap to *)
(* transparent black; drawing replaces the pixels the source covers (the   *)
(* sources drawn here are opaque); getImageData reads transparent black    *)
(* outside the bitmap.                                                     *)
(***************************************************************************)
TransparentBlack == [r |-> 0, g |-> 0, b |-> 0, a |-> 0]

ClearedCanvas(w, h) ==
    [width |-> w, height |-> h, data |-> [i \in 1..(w * h) |-> TransparentBlack]]

drawImage(cv, img) ==
    [cv EXCEPT !.data =
        [i \in 1..(cv.width * cv.height) |->
            LET x == (i - 1) % cv.width
                y == (i - 1) \div cv.width
            IN  IF x < img.width /\ y < img.height THEN Pixel(img, x, y) ELSE cv.data[i]]]

getImageData(cv, w, h) ==
    [width |-> w, height |-> h,
     data |-> [i \in 1..(w * h) |->
                LET x == (i - 1) % w
                    y == (i - 1) \div w
                IN  IF x < cv.width /\ y < cv.height THEN Pixel(cv, x, y)
                    ELSE TransparentBlack]]

\* page.getViewport({ scale: 2.0 }) and the bitmap page.render paints for it
RenderScale == 2

Viewport(page) == [width |-> RenderScale * page.width, height |-> RenderScale * page.height]

RenderedPage(page) ==
    LET vp == Viewport(page)
    IN  [width |-> vp.width, height |-> vp.height,
         data |-> [i \in 1..(vp.width * vp.height) |->
                    Pixel(page, ((i - 1) % vp.width) \div RenderScale,
                                ((i - 1) \div vp.width) \div RenderScale)]]

(***************************************************************************)
(* (width / height).toFixed(2), for height > 0: the quotient rounded to    *)
(* hundredths (half up), written with two decimals.                        *)
(***************************************************************************)
ToFixed2(w, h) ==
    LET n == (200 * w + h) \div (2 * h)
        frac == ToStringRadix(n % 100, 10)
    IN  ToStringRadix(n \div 100, 10) \o <<".">> \o
        (IF Len(frac) = 1 THEN <<"0">> ELSE <<>>) \o frac

(***************************************************************************)
(* The analysisResults object, and the synchronous block                   *)
(*   this.analysisResults.dimensions = {...};                              *)
(*   this.extractColorPalette(imageData); this.detectTextRegions(...);     *)
(*   this.analyzeLayout(imageData); this.detectDesignElements(imageData);  *)
(* of analyzeImage and analyzePDF, as the object it leaves behind.  A      *)
(* property the object does not have yet reads as Undefined.               *)
(***************************************************************************)
Undefined == [undefined |-> TRUE]

InitialResults ==
    [dimensions |-> Null,
     colorPalette |-> <<>>,
     fonts |-> <<>>,
     layout |-> [sections |-> <<>>, textBlocks |-> <<>>, imageAreas |-> <<>>,
                 grid |-> Undefined, margins |-> Undefined],
     designElements |-> [icons |-> <<>>, dividers |-> <<>>, borders |-> <<>>]]

WithDimensions(res, w, h) ==
    [res EXCEPT !.dimensions =
        [width |-> w, height |-> h, aspectRatio |-> ToFixed2(w, h)]]

WithColorPalette(res, img) == [res EXCEPT !.colorPalette = extractColorPalette(img)]

WithTextRegions(res, img) == [res EXCEPT !.layout.textBlocks = detectTextRegions(img)]

analyzeLayoutGridOfNoBlocks(res, img) ==
    [res EXCEPT !.layout.sections = detectSections(img),
                !.layout.grid = detectGridStructure(<<>>),
                !.layout.margins = detectMargins(img)]

\* analyzeLayout: the grid is computed from the textBlocks the object holds
\* at that moment.
analyzeLayout(res, img) ==
    [res EXCEPT !.layout.sections = detectSections(img),
                !.layout.grid = detectGridStructure(res.layout.textBlocks),
                !.layout.margins = detectMargins(img)]

WithDesignElements(res, img) == [res EXCEPT !.designElements = detectDesignElements(img)]

PixelSteps(res, img, w, h) ==
    WithDesignElements(
        analyzeLayout(
            WithTextRegions(
                WithColorPalette(WithDimensions(res, w, h), img), img), img), img)

PixelStepNames ==
    <<"extractColorPalette", "detectTextRegions", "analyzeLayout", "detectDesignElements">>

(***************************************************************************)
(* PreviewEngine: the .resume-page element.  Its custom properties         *)
(* --resume-primary-color, --resume-secondary-color and                    *)
(* --resume-primary-font are set on the element itself, which renderResume *)
(* keeps (it replaces the element's children only); a property that was    *)
(* never set is Unset, and the stylesheet's value applies.  The padding    *)
(* is set on the .resume-content child, which every render creates anew.   *)
(* The form handler is there and hands over its data, so that              *)
(* updatePreview renders the resume.                                       *)
(***************************************************************************)
Unset == <<>>

InitialPage ==
    [content |-> "placeholder", primaryColor |-> Unset, secondaryColor |-> Unset,
     primaryFont |-> Unset, padding |-> Unset]

\* A palette entry written out in the source: { hex: '#rrggbb', rgb:
\* 'rgb(r, g, b)' }, its strings as sequences of characters.
Colour(hex, r, g, b) ==
    [rgb |-> <<"r", "g", "b", "(">> \o ToStringRadix(r, 10) \o <<",", " ">> \o
             ToStringRadix(g, 10) \o <<",", " ">> \o ToStringRadix(b, 10) \o <<")">>,
     hex |-> hex]

\* PreviewEngine.getDefaultTemplate
defaultTemplate ==
    [colorPalette |-> <<Colour(<<"#", "2", "5", "6", "3", "e", "b">>, 37, 99, 235),
                        Colour(<<"#", "6", "4", "7", "4", "8", "b">>, 100, 116, 139)>>,
     fonts |-> <<"Inter", "Arial", "sans-serif">>,
     layout |-> [margins |-> [top |-> 20, right |-> 20, bottom |-> 20, left |-> 20],
                 sections |-> <<>>, textBlocks |-> <<>>]]

\* FontMatcher.matchFont for no name and for the names that are keys of
\* fontMap (a direct match); the names used here all are.
matchFont(fontName) ==
    CASE fontName = "" -> "Inter, Arial, sans-serif"
      [] fontName = "Times" -> "Times New Roman, serif"
      [] fontName = "Arial" -> "Arial, sans-serif"
      [] fontName = "Helvetica" -> "Helvetica, Arial, sans-serif"
      [] fontName = "Inter" -> "Inter, Arial, sans-serif"
      [] fontName = "Roboto" -> "Roboto, Arial, sans-serif"
      [] fontName = "Montserrat" -> "Montserrat, Arial, sans-serif"

\* `${margins.top}px ${margins.right}px ${margins.bottom}px ${margins.left}px`
PaddingOf(margins) ==
    ToStringRadix(margins.top, 10) \o <<"p", "x", " ">> \o
    ToStringRadix(margins.right, 10) \o <<"p", "x", " ">> \o
    ToStringRadix(margins.bottom, 10) \o <<"p", "x", " ">> \o
    ToStringRadix(margins.left, 10) \o <<"p", "x">>

\* PreviewEngine.applyTemplateStyles on a page whose .resume-content child
\* has just been created.
applyTemplateStyles(page, template) ==
    [content |-> page.content,
     primaryColor |->
        IF Len(template.colorPalette) > 0 THEN template.colorPalette[1].hex
        ELSE page.primaryColor,
     secondaryColor |->
        IF Len(template.colorPalette) > 0
        THEN IF Len(template.colorPalette) > 1 THEN template.colorPalette[2].hex
             ELSE <<"#", "6", "6", "6", "6", "6", "6">>
        ELSE page.secondaryColor,
     primaryFont |->
        IF Len(template.fonts) > 0 THEN matchFont(template.fonts[1])
        ELSE page.primaryFont,
     padding |->
        IF template.layout.margins # Undefined THEN PaddingOf(template.layout.margins)
        ELSE page.padding]

\* PreviewEngine.renderResume: new content, then the template's styles.
renderResume(page, template) ==
    applyTemplateStyles([page EXCEPT !.content = "resume", !.padding = Unset], template)

(***************************************************************************)
(* PaletteSpec: extractColorPalette applied to buffers drawn from a        *)
(* bounded family.  Pixel p of a buffer takes the colour                   *)
(* (first + (p \div period) % ncolors) of TestColors, and its alpha from   *)
(* one of the AlphaPatterns, indexed by p % 3.                             *)
(***************************************************************************)
MaxPixels == 101
Periods == {1, 7, 10}
Firsts == {0, 1}

RGB(r, g, b) == [r |-> r, g |-> g, b |-> b]

TestColors ==
    << RGB(255, 0, 0),     RGB(255, 255, 255), RGB(0, 0, 0),
       RGB(40, 200, 60),   RGB(250, 10, 5),    RGB(0, 128, 255),
       RGB(19, 20, 21),    RGB(100, 100, 100), RGB(200, 40, 120),
       RGB(60, 60, 240),   RGB(130, 220, 10) >>

AlphaPatterns ==
    [ solid       |-> <<255, 255, 255>>,
      opaque      |-> <<255, 128, 200>>,
      transparent |-> <<0, 127, 64>>,
      mixed       |-> <<255, 0, 127>>,
      mixedLate   |-> <<0, 128, 255>> ]

TestPixel(p, period, first, ncolors, pattern) ==
    LET c == TestColors[((first + ((p \div period) % ncolors)) % Len(TestColors)) + 1]
    IN  [r |-> c.r, g |-> c.g, b |-> c.b, a |-> AlphaPatterns[pattern][(p % 3) + 1]]

TestImage(n, period, first, ncolors, pattern) ==
    [width |-> n, height |-> 1,
     data |-> [i \in 1..n |-> TestPixel(i - 1, period, first, ncolors, pattern)]]

EmptyImage == [width |-> 0, height |-> 0, data |-> <<>>]

\* The analyzer and the application stay as constructed.
AnalyzerIdle ==
    /\ canvas = EmptyImage
    /\ heap = <<>>
    /\ analysisResults = NoObject
    /\ calls = <<>>
    /\ currentTemplate = NoObject
    /\ templateAnalysis = NoObject
    /\ resumePage = InitialPage
    /\ notification = <<>>
    /\ loading = FALSE

PaletteInit ==
    /\ \E n \in 1..MaxPixels, period \in Periods, first \in Firsts,
          ncolors \in 1..Len(TestColors), pattern \in DOMAIN AlphaPatterns :
          imageData = TestImage(n, period, first, ncolors, pattern)
    /\ colorPalette = <<>>
    /\ stage = "input"
    /\ rawRegions = <<>>
    /\ adjacent = <<>>
    /\ pixelResults = InitialResults
    /\ AnalyzerIdle

ExtractColorPalette ==
    /\ stage = "input"
    /\ colorPalette' = extractColorPalette(imageData)
    /\ stage' = "done"
    /\ UNCHANGED <<imageData, rawRegions, adjacent, pixelResults>>
    /\ UNCHANGED analyzerVars

PaletteNext == ExtractColorPalette

PaletteSpec == PaletteInit /\ [][PaletteNext]_vars

(***************************************************************************)
(* MergeSpec: mergeTextRegions applied to the raw regions detectTextRegions *)
(* can hand it, and detectGridStructure applied to the merged blocks, as   *)
(* analyzeLayout does next.  The raw regions are the cells of a            *)
(* MergeCols x MergeRows grid of 20px cells that passed the score          *)
(* threshold, at most MaxRawRegions of them, in the order the scan pushes   *)
(* them (y outer, x inner).                                                *)
(***************************************************************************)
MergeCols == 5
MergeRows == 2
MaxRawRegions == 4

RawCell(k) ==
    [x |-> ((k - 1) % MergeCols) * blockSize, y |-> ((k - 1) \div MergeCols) * blockSize,
     width |-> blockSize, height |-> blockSize,
     confidence |-> Fraction(4 + (k % 6), 10)]

RawRegionsOf(chosen) ==
    LET ks == SelectSeq([k \in 1..(MergeCols * MergeRows) |-> k], LAMBDA k : k \in chosen)
    IN  [i \in 1..Len(ks) |-> RawCell(ks[i])]

MergeInit ==
    /\ \E chosen \in SUBSET (1..(MergeCols * MergeRows)) :
          /\ Cardinality(chosen) <= MaxRawRegions
          /\ rawRegions = RawRegionsOf(chosen)
    /\ adjacent = <<>>
    /\ pixelResults = InitialResults
    /\ imageData = EmptyImage
    /\ colorPalette = <<>>
    /\ stage = "input"
    /\ AnalyzerIdle

\* detectTextRegions from its call of mergeTextRegions, then the grid step
\* of analyzeLayout.
MergeTextRegions ==
    /\ stage = "input"
    /\ LET withBlocks ==
               [pixelResults EXCEPT !.layout.textBlocks = mergeTextRegions(rawRegions)]
       IN  pixelResults' =
               [withBlocks EXCEPT
                   !.layout.grid = detectGridStructure(withBlocks.layout.textBlocks)]
    /\ stage' = "done"
    /\ UNCHANGED <<imageData, colorPalette, rawRegions, adjacent>>
    /\ UNCHANGED analyzerVars

MergeNext == MergeTextRegions

MergeSpec == MergeInit /\ [][MergeNext]_vars

(***************************************************************************)
(* AdjacencySpec: areRegionsAdjacent applied to two regions, in both       *)
(* orders.  The regions have their corners on a few coordinates that put   *)
(* gaps of 29, 30, 31, 59, 60 and 61 pixels (and overlaps) between them.   *)
(***************************************************************************)
RegionCoordinates == {0, 49, 50, 51, 79, 80, 81}
RegionSizes == {20, 40}

AdjacencyRegions ==
    {[x |-> x, y |-> y, width |-> size, height |-> blockSize,
      confidence |-> Fraction(1, 2)] :
        x \in RegionCoordinates, y \in {0, 50, 51, 81}, size \in RegionSizes}

AdjacencyInit ==
    /\ \E region1, region2 \in AdjacencyRegions : rawRegions = <<region1, region2>>
    /\ adjacent = <<>>
    /\ pixelResults = InitialResults
    /\ imageData = EmptyImage
    /\ colorPalette = <<>>
    /\ stage = "input"
    /\ AnalyzerIdle

\* areRegionsAdjacent(region1, region2) and areRegionsAdjacent(region2, region1)
AreRegionsAdjacent ==
    /\ stage = "input"
    /\ adjacent' = <<areRegionsAdjacent(rawRegions[1], rawRegions[2]),
                     areRegionsAdjacent(rawRegions[2], rawRegions[1])>>
    /\ stage' = "done"
    /\ UNCHANGED <<imageData, colorPalette, rawRegions, pixelResults>>
    /\ UNCHANGED analyzerVars

AdjacencyNext == AreRegionsAdjacent

AdjacencySpec == AdjacencyInit /\ [][AdjacencyNext]_vars

(***************************************************************************)
(* The analyzer and the application around it.                             *)
(*                                                                         *)
(* A File is [type, size, bitmap, items]: its MIME type as [major, minor]  *)
(* (type.startsWith('image/') is major = "image"), its size in bytes, the  *)
(* bitmap its decoder yields (for a PDF: page 1 at scale 1) and the items  *)
(* of its text layer.                                                      *)
(***************************************************************************)
MaxCalls == 2
MaxResets == 1

Opaque(r, g, b) == [r |-> r, g |-> g, b |-> b, a |-> 255]
Mime(major, minor) == [major |-> major, minor |-> minor]

Files ==
    << [type |-> Mime("image", "png"), size |-> 10485760,
        bitmap |-> [width |-> 1, height |-> 1, data |-> <<Opaque(255, 0, 0)>>],
        items |-> <<>>],
       [type |-> Mime("application", "pdf"), size |-> 4096,
        bitmap |-> [width |-> 1, height |-> 1, data |-> <<Opaque(0, 0, 0)>>],
        items |-> <<[fontName |-> "Helvetica"], [fontName |-> ""],
                    [fontName |-> "Times"], [fontName |-> "Helvetica"]>>],
       [type |-> Mime("image", "gif"), size |-> 1024,
        bitmap |-> [width |-> 2, height |-> 1,
                    data |-> <<Opaque(255, 255, 255), Opaque(0, 0, 0)>>],
        items |-> <<>>],
       [type |-> Mime("text", "plain"), size |-> 512,
        bitmap |-> EmptyImage, items |-> <<>>],
       [type |-> Mime("image", "png"), size |-> 10485761,
        bitmap |-> [width |-> 1, height |-> 1, data |-> <<Opaque(255, 0, 0)>>],
        items |-> <<>>],
       [type |-> Mime("image", "png"), size |-> 2048,
        bitmap |-> [width |-> 1, height |-> 1, data |-> <<TransparentBlack>>],
        items |-> <<>>] >>

\* A file whose bitmap has pixels, all of them transparent.
Blank(file) ==
    /\ Len(file.bitmap.data) > 0
    /\ \A i \in 1..Len(file.bitmap.data) : file.bitmap.data[i].a < 128

\* The files of the lifecycle, and the ones handed in while the preview is
\* watched (the PNG files: a red pixel, one too large, a transparent pixel).
FileIds == {f \in 1..Len(Files) : ~Blank(Files[f])}
PreviewFileIds == {f \in 1..Len(Files) : Files[f].type = Mime("image", "png")}

isValidTemplateFileTypeOnly(file) ==
    file.type \in {Mime("image", "jpeg"), Mime("image", "jpg"), Mime("image", "png"),
                   Mime("application", "pdf")}

\* ResumeBuilderApp.isValidTemplateFile
maxSize == 10485760
validTypes ==
    {Mime("image", "jpeg"), Mime("image", "jpg"), Mime("image", "png"),
     Mime("application", "pdf")}
isValidTemplateFile(file) == file.type \in validTypes /\ file.size <= maxSize

\* The branch analyzeTemplate takes for a file.
Route(file) ==
    IF file.type.major = "image" THEN "image"
    ELSE IF file.type = Mime("application", "pdf") THEN "pdf" ELSE "unsupported"

Pending(c) == c.promise = "pending"

\* A call that has settled.  Settling a promise queues the continuation of
\* the caller that awaits it as a microtask, which runs before the next
\* event (an image load, a message of the PDF worker, a click) is handled:
\* the record of a settled call therefore is the record of a call whose
\* caller has resumed, and it keeps no more than how the call went.
\* `delivered` lists the outcomes the caller was handed.
Settled(c, kind, ref, err) ==
    [pc |-> "done", via |-> c.via, type |-> c.type, size |-> c.size,
     listed |-> c.listed, promise |-> kind,
     value |-> ref, error |-> err, steps |-> c.steps,
     delivered |-> Append(c.delivered, IF kind = "fulfilled" THEN "result" ELSE "error")]

\* resolve(value) / return value: a promise settles once.
Resolve(c, ref) == IF Pending(c) THEN Settled(c, "fulfilled", ref, "") ELSE c

RejectDropped(c, err) == c

\* reject(error) / throw error
Reject(c, err) == IF Pending(c) THEN Settled(c, "rejected", NoObject, err) ELSE c

Logged(c, names) == [c EXCEPT !.steps = @ \o names]

\* The heap after the object this.analysisResults refers to became `results`.
Written(results) == [heap EXCEPT ![analysisResults] = results]

AnalyzerInit ==
    /\ canvas = ClearedCanvas(0, 0)
    /\ heap = <<InitialResults>>
    /\ analysisResults = 1
    /\ calls = <<>>
    /\ currentTemplate = NoObject
    /\ templateAnalysis = NoObject
    /\ resumePage = InitialPage
    /\ notification = <<>>
    /\ loading = FALSE

PaletteIdle ==
    /\ imageData = EmptyImage
    /\ colorPalette = <<>>
    /\ stage = "idle"
    /\ rawRegions = <<>>
    /\ adjacent = <<>>
    /\ pixelResults = InitialResults

Init == AnalyzerInit /\ PaletteIdle

\* The record of a call of analyzeTemplate(Files[f]) at its first suspension
\* point (or settled, when it has none).  Kept for the properties only:
\* `listed` (whether the MIME type is one of the four supported ones),
\* `overlapped` and `resetBeside` (whether another call was in flight, or the
\* application was reset, while this one was), `before` (the results object
\* as the call found it) and `steps` (the steps it ran).
NewCall(f, via) ==
    LET c == [file |-> f, via |-> via, type |-> Files[f].type, size |-> Files[f].size,
              listed |-> Files[f].type \in validTypes,
              pc |-> "start", promise |-> "pending", steps |-> <<>>, delivered |-> <<>>,
              overlapped |-> \E k \in 1..Len(calls) : Pending(calls[k]),
              resetBeside |-> FALSE,
              before |-> heap[analysisResults]]
    IN  IF Route(Files[f]) = "image" THEN [c EXCEPT !.pc = "image_loading"]
        ELSE IF Route(Files[f]) = "pdf" THEN [c EXCEPT !.pc = "pdf_opening"]
        ELSE Reject(c, "Unsupported file type")

Started(f, via) ==
    Append([k \in 1..Len(calls) |->
               IF Pending(calls[k]) THEN [calls[k] EXCEPT !.overlapped = TRUE]
               ELSE calls[k]],
           NewCall(f, via))

\* ResumeBuilderApp.showNotification(message, type): the element it appends,
\* the message as the pieces of text it is put together from.
Note(type, message) == [type |-> type, message |-> message]

\* processTemplateFile that shows its error and throws it on
processTemplateFileEndRethrowing(failed) ==
    [shown |-> << IF failed
                  THEN Note("error", <<"Failed to analyze template. Please try a different file.">>)
                  ELSE Note("success", <<"Template analyzed successfully!">>) >>,
     thrown |-> failed]

\* How ResumeBuilderApp.processTemplateFile ends: showSuccess as the last
\* statement of its try block, or showError in its catch when the block threw
\* (`failed`); the catch throws nothing on.  (Its finally hides the loading
\* indicator, which the actions below do.)
processTemplateFileEnd(failed) ==
    [shown |-> << IF failed
                  THEN Note("error", <<"Failed to analyze template. Please try a different file.">>)
                  ELSE Note("success", <<"Template analyzed successfully!">>) >>,
     thrown |-> FALSE]

\* What handleTemplateUpload and handleDrop have shown when the
\* processTemplateFile they awaited has ended as `end`: their own catch shows
\* an error for what was thrown to them.
HandlerShows(end) ==
    IF end.thrown
    THEN Append(end.shown, Note("error", <<"Failed to process template file. Please try again.">>))
    ELSE end.shown

\* The rest of processTemplateFile after `await analyzeTemplate(file)`, for a
\* call the application made (on the file input's change or on a drop) that
\* ended as `c`; nothing for other callers and for a call still in flight.
CallerResumes(c) ==
    IF c.via = "app" /\ ~Pending(c)
    THEN /\ loading' = FALSE
         /\ notification' = HandlerShows(processTemplateFileEnd(c.promise # "fulfilled"))
         /\ IF c.promise = "fulfilled"
            THEN /\ currentTemplate' = c.value
                 /\ templateAnalysis' = c.value
                 /\ resumePage' = renderResume(resumePage, heap'[c.value])
            ELSE UNCHANGED <<currentTemplate, templateAnalysis, resumePage>>
    ELSE UNCHANGED <<currentTemplate, templateAnalysis, resumePage, notification, loading>>

\* templateAnalyzer.analyzeTemplate(file) called by a script of the page
\* (window.templateAnalyzer), up to its first suspension point.  The files
\* handed in this way are the ones of a type the application does not list.
AnalyzeTemplate(f) ==
    /\ Len(calls) < MaxCalls
    /\ Files[f].type \notin validTypes
    /\ calls' = Started(f, "direct")
    /\ UNCHANGED <<canvas, heap, analysisResults, currentTemplate, templateAnalysis, resumePage,
                   notification, loading>>
    /\ UNCHANGED paletteVars

\* ResumeBuilderApp.processTemplateFile(file) up to its first suspension
\* point, or to its end when the file is not valid.
ProcessTemplateFile(f) ==
    /\ Len(calls) < MaxCalls
    /\ IF isValidTemplateFile(Files[f])
       THEN /\ calls' = Started(f, "app")
            /\ IF Pending(NewCall(f, "app"))
               THEN /\ loading' = TRUE
                    /\ UNCHANGED <<currentTemplate, templateAnalysis, resumePage, notification>>
               ELSE CallerResumes(NewCall(f, "app"))
       ELSE /\ notification' = HandlerShows(processTemplateFileEnd(TRUE))
            /\ loading' = FALSE
            /\ UNCHANGED <<calls, currentTemplate, templateAnalysis, resumePage>>
    /\ UNCHANGED <<canvas, heap, analysisResults>>
    /\ UNCHANGED paletteVars

\* ResumeBuilderApp.handleTemplateUpload: the file input changed to Files[f].
\* (processTemplateFile catches what it throws, so the catch here is not
\* entered.)
HandleTemplateUpload(f) == ProcessTemplateFile(f)

\* ResumeBuilderApp.handleDrop: Files[f] was dropped on the upload zone.
HandleDrop(f) ==
    IF isValidTemplateFile(Files[f])
    THEN ProcessTemplateFile(f)
    ELSE /\ notification' = <<Note("error", <<"Please upload a valid template file (PDF, JPG, JPEG, or PNG).">>)>>
         /\ UNCHANGED <<canvas, heap, analysisResults, calls, currentTemplate,
                        templateAnalysis, resumePage, loading>>
         /\ UNCHANGED paletteVars

\* img.onload of analyzeImage.  (The bitmaps here have width, height > 0, so
\* getImageData does not throw and the catch of the handler is not entered.)
ImageLoaded(k) ==
    /\ k \in 1..Len(calls)
    /\ calls[k].pc = "image_loading"
    /\ LET img == Files[calls[k].file].bitmap
           cv == drawImage(ClearedCanvas(img.width, img.height), img)
           data == getImageData(cv, img.width, img.height)
           step(res) == PixelSteps(res, data, img.width, img.height)
           c == Resolve(Logged(calls[k], <<"drawImage">> \o PixelStepNames),
                        analysisResults)
       IN  /\ canvas' = cv
           /\ heap' = Written(step(heap[analysisResults]))
           /\ calls' = [calls EXCEPT ![k] = c]
           /\ CallerResumes(c)
    /\ UNCHANGED analysisResults
    /\ UNCHANGED paletteVars

\* img.onerror of analyzeImage
ImageFailed(k) ==
    /\ k \in 1..Len(calls)
    /\ calls[k].pc = "image_loading"
    /\ LET c == Reject(Logged(calls[k], <<"onerror">>), "Failed to load image")
       IN  /\ calls' = [calls EXCEPT ![k] = c]
           /\ CallerResumes(c)
    /\ UNCHANGED <<canvas, heap, analysisResults>>
    /\ UNCHANGED paletteVars

\* analyzePDF from the moment arrayBuffer(), getDocument() and getPage(1)
\* have resolved (nothing is touched between them) to `await page.render`.
PdfOpened(k) ==
    /\ k \in 1..Len(calls)
    /\ calls[k].pc = "pdf_opening"
    /\ LET vp == Viewport(Files[calls[k].file].bitmap)
       IN  canvas' = ClearedCanvas(vp.width, vp.height)
    /\ calls' = [calls EXCEPT ![k].pc = "pdf_rendering"]
    /\ UNCHANGED <<heap, analysisResults, currentTemplate, templateAnalysis, resumePage,
                   notification, loading>>
    /\ UNCHANGED paletteVars

\* analyzePDF from the end of page.render, which has painted the page on the
\* canvas as it is by then, to `await page.getTextContent()`.
PdfRendered(k) ==
    /\ k \in 1..Len(calls)
    /\ calls[k].pc = "pdf_rendering"
    /\ LET page == Files[calls[k].file].bitmap
           vp == Viewport(page)
           cv == drawImage(canvas, RenderedPage(page))
           data == getImageData(cv, vp.width, vp.height)
           step(res) == PixelSteps(res, data, vp.width, vp.height)
       IN  /\ canvas' = cv
           /\ heap' = Written(step(heap[analysisResults]))
    /\ calls' = [calls EXCEPT ![k] =
                    [Logged(@, <<"render">> \o PixelStepNames) EXCEPT !.pc = "pdf_text"]]
    /\ UNCHANGED <<analysisResults, currentTemplate, templateAnalysis, resumePage, notification, loading>>
    /\ UNCHANGED paletteVars

\* analyzePDF from the end of getTextContent to its return
PdfTextExtracted(k) ==
    /\ k \in 1..Len(calls)
    /\ calls[k].pc = "pdf_text"
    /\ LET step(res) ==
               [res EXCEPT !.fonts = analyzeTextContent(Files[calls[k].file].items)]
           c == Resolve(Logged(calls[k], <<"analyzeTextContent">>), analysisResults)
       IN  /\ heap' = Written(step(heap[analysisResults]))
           /\ calls' = [calls EXCEPT ![k] = c]
           /\ CallerResumes(c)
    /\ UNCHANGED <<canvas, analysisResults>>
    /\ UNCHANGED paletteVars

\* The catch of analyzePDF: one of its awaits has rejected.
PdfFailed(k) ==
    /\ k \in 1..Len(calls)
    /\ calls[k].pc \in {"pdf_opening", "pdf_rendering", "pdf_text"}
    /\ LET c == Reject(Logged(calls[k], <<"catch">>), "PDF failure")
       IN  /\ calls' = [calls EXCEPT ![k] = c]
           /\ CallerResumes(c)
    /\ UNCHANGED <<canvas, heap, analysisResults>>
    /\ UNCHANGED paletteVars

\* ResumeBuilderApp.reset, confirmed: TemplateAnalyzer.reset gives the
\* analyzer a new results object.  (The confirm of FormHandler.clearFormData
\* that reset runs into first is declined: the page is not reloaded.)  The
\* preview engine is not told.
Reset ==
    /\ Len(heap) <= MaxResets
    /\ currentTemplate' = NoObject
    /\ heap' = Append(heap, InitialResults)
    /\ analysisResults' = Len(heap) + 1
    /\ notification' = <<Note("success", <<"Application reset successfully!">>)>>
    /\ calls' = [k \in 1..Len(calls) |->
                    IF Pending(calls[k]) THEN [calls[k] EXCEPT !.resetBeside = TRUE]
                    ELSE calls[k]]
    /\ UNCHANGED <<canvas, templateAnalysis, resumePage, loading>>
    /\ UNCHANGED paletteVars

Next ==
    \/ \E f \in FileIds : AnalyzeTemplate(f)
    \/ \E f \in FileIds : HandleTemplateUpload(f)
    \/ \E f \in FileIds : HandleDrop(f)
    \/ \E k \in 1..MaxCalls : ImageLoaded(k)
    \/ \E k \in 1..MaxCalls : ImageFailed(k)
    \/ \E k \in 1..MaxCalls : PdfOpened(k)
    \/ \E k \in 1..MaxCalls : PdfRendered(k)
    \/ \E k \in 1..MaxCalls : PdfTextExtracted(k)
    \/ \E k \in 1..MaxCalls : PdfFailed(k)
    \/ Reset

Spec == Init /\ [][Next]_vars

\* What a freshly constructed analyzer returns for a file it can analyse.
FreshResult(file) ==
    IF Route(file) = "image"
    THEN PixelSteps(InitialResults,
                    getImageData(drawImage(ClearedCanvas(file.bitmap.width,
                                                         file.bitmap.height),
                                           file.bitmap),
                                 file.bitmap.width, file.bitmap.height),
                    file.bitmap.width, file.bitmap.height)
    ELSE LET vp == Viewport(file.bitmap)
             res == PixelSteps(InitialResults,
                               getImageData(drawImage(ClearedCanvas(vp.width, vp.height),
                                                      RenderedPage(file.bitmap)),
                                            vp.width, vp.height),
                               vp.width, vp.height)
         IN  [res EXCEPT !.fonts = analyzeTextContent(file.items)]

(***************************************************************************)
(* PreviewSpec: the preview while templates are applied to it, from the    *)
(* library (TemplateLibrary.selectTemplate), by analysing a file handed to *)
(* the file input, and re-rendered when the form changes.  The library's   *)
(* configs are objects next to the analyzer's results object.              *)
(***************************************************************************)
\* TemplateLibrary.templates
templates ==
    << [id |-> "classic", name |-> "Classic Professional",
        config |-> [colorPalette |->
                        <<Colour(<<"#", "3", "3", "3", "3", "3", "3">>, 51, 51, 51),
                          Colour(<<"#", "0", "0", "7", "b", "f", "f">>, 0, 123, 255)>>,
                    fonts |-> <<"Helvetica", "Arial", "sans-serif">>,
                    layout |-> [margins |->
                                   [top |-> 20, right |-> 20, bottom |-> 20, left |-> 20]]]],
       [id |-> "modern", name |-> "Modern Minimalist",
        config |-> [colorPalette |->
                        <<Colour(<<"#", "2", "c", "3", "e", "5", "0">>, 44, 62, 80),
                          Colour(<<"#", "1", "a", "b", "c", "9", "c">>, 26, 188, 156)>>,
                    fonts |-> <<"Roboto", "sans-serif">>,
                    layout |-> [margins |->
                                   [top |-> 25, right |-> 25, bottom |-> 25, left |-> 25]]]],
       [id |-> "creative", name |-> "Creative Portfolio",
        config |-> [colorPalette |->
                        <<Colour(<<"#", "e", "7", "4", "c", "3", "c">>, 231, 76, 60),
                          Colour(<<"#", "3", "4", "4", "9", "5", "e">>, 52, 73, 94)>>,
                    fonts |-> <<"Montserrat", "sans-serif">>,
                    layout |-> [margins |->
                                   [top |-> 15, right |-> 15, bottom |-> 15, left |-> 15]]]] >>

\* The reference to templates[t].config
ConfigOf(t) == 1 + t

PreviewInit ==
    /\ canvas = ClearedCanvas(0, 0)
    /\ heap = <<InitialResults>> \o [t \in 1..Len(templates) |-> templates[t].config]
    /\ analysisResults = 1
    /\ calls = <<>>
    /\ currentTemplate = NoObject
    /\ templateAnalysis = NoObject
    /\ resumePage = InitialPage
    /\ notification = <<>>
    /\ loading = FALSE
    /\ PaletteIdle

\* TemplateLibrary.selectTemplate(templates[t].id), by a click on its card
SelectTemplate(t) ==
    /\ templateAnalysis' = ConfigOf(t)
    /\ resumePage' = renderResume(resumePage, heap[ConfigOf(t)])
    /\ currentTemplate' = ConfigOf(t)
    /\ notification' = <<Note("success", <<"Template \"", templates[t].name, "\" selected.">>)>>
    /\ UNCHANGED <<canvas, heap, analysisResults, calls, loading>>
    /\ UNCHANGED paletteVars

\* PreviewEngine.updatePreview(formData), called by the form handler when
\* the form changes.
UpdatePreview ==
    /\ resumePage' = renderResume(resumePage,
                                  IF templateAnalysis # NoObject THEN heap[templateAnalysis]
                                  ELSE defaultTemplate)
    /\ UNCHANGED <<canvas, heap, analysisResults, calls, currentTemplate, templateAnalysis,
                   notification, loading>>
    /\ UNCHANGED paletteVars

PreviewNext ==
    \/ \E t \in 1..Len(templates) : SelectTemplate(t)
    \/ \E f \in PreviewFileIds : HandleTemplateUpload(f)
    \/ \E k \in 1..MaxCalls : ImageLoaded(k)
    \/ UpdatePreview

PreviewSpec == PreviewInit /\ [][PreviewNext]_vars

(***************************************************************************)
(* Properties of the analyzer's calls.                                     *)
(***************************************************************************)
\* Call k settles in this step, as `kind`.
Settles(k, kind) ==
    /\ k \in 1..Len(calls)
    /\ Pending(calls[k])
    /\ calls'[k].promise = kind

\* Call k ran with no other call in flight and without a reset beside it.
RanAlone(k) == ~calls[k].overlapped /\ ~calls[k].resetBeside

\* Every call made so far was made with a file of a supported type.
AllListed == \A j \in 1..Len(calls) : calls[j].listed

PixelFields(res) == <<res.dimensions, res.colorPalette, res.layout, res.designElements>>

\* C1: the result a completed call returns depends on its file only: for a
\* call that ran alone (whatever ran and completed before it), every field
\* of the returned object is what a freshly constructed analyzer returns for
\* that file.  (Stated for runs in which every file is of a supported type.)
ResultDependsOnFileOnly ==
    [][\A k \in 1..Len(calls) :
          (AllListed /\ Settles(k, "fulfilled") /\ RanAlone(k)) =>
              heap'[calls'[k].value] = FreshResult(Files[calls[k].file])]_vars

\* C2: a result the application holds (app.currentTemplate,
\* previewEngine.templateAnalysis) is immutable: no step changes a field of
\* the object either of them refers to.  (Stated for runs in which every
\* file is of a supported type.)
HeldResultImmutable ==
    [][AllListed' =>
          /\ currentTemplate # NoObject =>
                heap'[currentTemplate] = heap[currentTemplate]
          /\ templateAnalysis # NoObject =>
                heap'[templateAnalysis] = heap[templateAnalysis]]_vars

\* C3: a call that had another call in flight beside it still returns the
\* result computed from its own file.  (Stated for the fields the call
\* itself writes, the pixel fields and for a PDF the fonts, and for runs in
\* which every file is of a supported type.)
OverlappingCallsIndependent ==
    [][\A k \in 1..Len(calls) :
          (AllListed /\ Settles(k, "fulfilled") /\ calls[k].overlapped
              /\ ~calls[k].resetBeside) =>
              LET got == heap'[calls'[k].value]
                  own == FreshResult(Files[calls[k].file])
              IN  /\ PixelFields(got) = PixelFields(own)
                  /\ Route(Files[calls[k].file]) = "pdf" => got.fonts = own.fonts]_vars

PixelWork == {"drawImage", "render", "extractColorPalette", "detectTextRegions",
              "analyzeLayout", "detectDesignElements"}

\* C4: a call with a file whose MIME type is none of image/jpeg, image/jpg,
\* image/png, application/pdf has failed with the unsupported-type error as
\* soon as it is made, and has run no pixel step.
UnsupportedTypeRejectedAtOnce ==
    \A k \in 1..Len(calls) :
        ~calls[k].listed =>
            /\ calls[k].promise = "rejected"
            /\ calls[k].error = "Unsupported file type"
            /\ \A i \in 1..Len(calls[k].steps) : calls[k].steps[i] \notin PixelWork

\* C5: when a call fails, getResults() is as it was before the call (for a
\* call that ran alone, in a run in which every file is of a supported type).
FailureLeavesResultsUnchanged ==
    [][\A k \in 1..Len(calls) :
          (AllListed /\ Settles(k, "rejected") /\ RanAlone(k)) =>
              heap'[analysisResults'] = calls[k].before]_vars

\* C6: every call settles exactly once: a call is in flight or done; a call
\* that is done has handed its caller exactly one outcome, a result (an
\* analysisResults object, and no error) or an error (and no result); no
\* step of a call runs twice.
SettlesExactlyOnce ==
    \A k \in 1..Len(calls) :
        LET c == calls[k]
        IN  /\ \A i, j \in 1..Len(c.steps) : c.steps[i] = c.steps[j] => i = j
            /\ IF Pending(c)
               THEN /\ c.pc \in {"image_loading", "pdf_opening", "pdf_rendering", "pdf_text"}
                    /\ c.delivered = <<>>
               ELSE /\ c.pc = "done"
                    /\ c.promise \in {"fulfilled", "rejected"}
                    /\ c.promise = "fulfilled" =>
                          /\ c.value \in 1..Len(heap)
                          /\ c.error = ""
                          /\ c.delivered = <<"result">>
                    /\ c.promise = "rejected" =>
                          /\ c.value = NoObject
                          /\ c.error # ""
                          /\ c.delivered = <<"error">>

\* One call has ended with a result after its pixel steps, another with an
\* error after its decoder failed.
SettlesWitness ==
    \E k1, k2 \in 1..Len(calls) :
        /\ calls[k1].promise = "fulfilled"
        /\ calls[k1].delivered = <<"result">>
        /\ \E i \in 1..Len(calls[k1].steps) : calls[k1].steps[i] = "detectDesignElements"
        /\ calls[k2].promise = "rejected"
        /\ calls[k2].delivered = <<"error">>
        /\ calls[k2].listed

(***************************************************************************)
(* Properties of the palette.                                              *)
(***************************************************************************)
AllAlphaAtLeast128 == \A i \in 1..Len(imageData.data) : imageData.data[i].a >= 128
AllAlphaBelow128 == \A i \in 1..Len(imageData.data) : imageData.data[i].a < 128

\* The pixel indices the extractor visits, and the bucket of a pixel, stated
\* without the extractor's own arithmetic.
SampledPixels == {p \in 0..(Len(imageData.data) - 1) : p % 10 = 0}
BucketFloor(v) == CHOOSE m \in {20 * k : k \in 0..12} : m <= v /\ v < m + 20
BucketOf(px) == <<BucketFloor(px.r), BucketFloor(px.g), BucketFloor(px.b)>>
CountedIn(t) ==
    {p \in SampledPixels :
        imageData.data[p + 1].a >= 128 /\ BucketOf(imageData.data[p + 1]) = t}
DistinctBuckets ==
    {BucketOf(imageData.data[p + 1]) :
        p \in {q \in SampledPixels : imageData.data[q + 1].a >= 128}}

LowerHexDigits == {Digits[i] : i \in 1..16}
WellFormedHex(h) ==
    /\ Len(h) = 7
    /\ h[1] = "#"
    /\ \A i \in 2..7 : h[i] \in LowerHexDigits
HexTriple(h) ==
    <<ParseRadix(SubSeq(h, 2, 3), 16), ParseRadix(SubSeq(h, 4, 5), 16),
      ParseRadix(SubSeq(h, 6, 7), 16)>>
\* The triple written in "rgb(R, G, B)", or <<>> when s has another shape.
RgbTriple(s) ==
    IF Len(s) >= 5 /\ SubSeq(s, 1, 4) = <<"r", "g", "b", "(">> /\ s[Len(s)] = ")"
    THEN LET parts == Split(SubSeq(s, 5, Len(s) - 1), ",")
         IN  IF /\ Len(parts) = 3
                /\ Len(parts[1]) >= 1
                /\ \A i \in 2..3 : Len(parts[i]) >= 2 /\ parts[i][1] = " "
             THEN <<ParseRadix(parts[1], 10), ParseRadix(Tail(parts[2]), 10),
                    ParseRadix(Tail(parts[3]), 10)>>
             ELSE <<>>
    ELSE <<>>

\* C7 (as stated): for a buffer of at least one pixel whose pixels all have
\* alpha >= 128, the palette is non-empty, has at most 8 entries, and its
\* frequencies are strictly decreasing from one entry to the next.
PaletteStrictlyDecreasing ==
    (stage = "done" /\ Len(imageData.data) >= 1 /\ AllAlphaAtLeast128) =>
        /\ Len(colorPalette) >= 1
        /\ Len(colorPalette) <= 8
        /\ \A i \in 1..(Len(colorPalette) - 1) :
              colorPalette[i].frequency > colorPalette[i + 1].frequency

\* C7 (amended): for a buffer of at least one pixel whose pixels all have
\* alpha >= 128, the palette is non-empty, has at most 8 entries, and its
\* frequencies never increase from one entry to the next (equal counts stay
\* next to each other).
PaletteSortedDescending ==
    (stage = "done" /\ Len(imageData.data) >= 1 /\ AllAlphaAtLeast128) =>
        /\ Len(colorPalette) >= 1
        /\ Len(colorPalette) <= 8
        /\ \A i \in 1..(Len(colorPalette) - 1) :
              colorPalette[i].frequency >= colorPalette[i + 1].frequency

\* An opaque buffer with more than 8 buckets, cut to 8 swatches, some of them
\* with equal and some with different counts.
PaletteSortedWitness ==
    /\ stage = "done"
    /\ AllAlphaAtLeast128
    /\ Cardinality(DistinctBuckets) > 8
    /\ Len(colorPalette) = 8
    /\ \E i \in 1..7 : colorPalette[i].frequency > colorPalette[i + 1].frequency
    /\ \E i \in 1..7 : colorPalette[i].frequency = colorPalette[i + 1].frequency

OnlyOpaquePureRed ==
    /\ Len(imageData.data) >= 1
    /\ \A i \in 1..Len(imageData.data) :
          imageData.data[i] = [r |-> 255, g |-> 0, b |-> 0, a |-> 255]

\* C8 (as stated): for a buffer of opaque pure red (255,0,0) pixels only, the
\* first swatch has hex "#ff0000".
PureRedHexIsFF0000 ==
    (stage = "done" /\ OnlyOpaquePureRed) =>
        /\ Len(colorPalette) >= 1
        /\ colorPalette[1].hex = <<"#", "f", "f", "0", "0", "0", "0">>

\* C8 (amended): for a buffer of opaque pure red (255,0,0) pixels only, the
\* first (and only) swatch has hex "#f00000", the hex of the bucket floor
\* (240, 0, 0).
PureRedHexIsBucketFloor ==
    (stage = "done" /\ OnlyOpaquePureRed) =>
        /\ Len(colorPalette) = 1
        /\ colorPalette[1].hex = <<"#", "f", "0", "0", "0", "0", "0">>

PureRedWitness ==
    /\ stage = "done"
    /\ OnlyOpaquePureRed
    /\ Len(imageData.data) > 10
    /\ Len(colorPalette) = 1
    /\ colorPalette[1].frequency > 1

\* C9: every swatch is self-consistent: the triple its hex string encodes
\* consists of bucket floors (multiples of 20 in 0..240), the sampled opaque
\* pixels of that bucket are exactly the ones counted in it, its rgb string
\* encodes the same triple, and its hex string is "#" followed by exactly 6
\* lowercase hex digits.
SwatchSelfConsistent ==
    stage = "done" =>
        \A i \in 1..Len(colorPalette) :
            LET sw == colorPalette[i]
            IN  /\ WellFormedHex(sw.hex)
                /\ \A c \in 1..3 : HexTriple(sw.hex)[c] \in {20 * k : k \in 0..12}
                /\ RgbTriple(sw.rgb) = HexTriple(sw.hex)
                /\ sw.frequency >= 1
                /\ sw.frequency = Cardinality(CountedIn(HexTriple(sw.hex)))

\* A palette of several swatches, one of them with a channel that is 0 and
\* another channel that is not.
SwatchWitness ==
    /\ stage = "done"
    /\ Len(colorPalette) >= 3
    /\ \E i \in 1..Len(colorPalette) :
          /\ SubSeq(colorPalette[i].hex, 2, 3) = <<"0", "0">>
          /\ SubSeq(colorPalette[i].hex, 6, 7) # <<"0", "0">>
          /\ colorPalette[i].frequency >= 2

\* C10: for a buffer in which every pixel has alpha < 128 the palette is
\* empty.
TransparentPaletteEmpty ==
    (stage = "done" /\ AllAlphaBelow128) => colorPalette = <<>>

\* A transparent buffer of several samples, some with a non-zero alpha.
TransparentWitness ==
    /\ stage = "done"
    /\ AllAlphaBelow128
    /\ Len(imageData.data) > 20
    /\ \E p \in SampledPixels : imageData.data[p + 1].a > 0
    /\ colorPalette = <<>>

(***************************************************************************)
(* PixelSpec: the synchronous analysis block of analyzeImage / analyzePDF  *)
(* applied to an ImageData drawn from these families, on a white ground:   *)
(*   CheckerImage   a 20x20 block of 1px-alternating black / white cells   *)
(*   SolidImage     one colour everywhere                                  *)
(*   BandImage      rows [a, b) carry pixels of one kind: "full" (every    *)
(*                  pixel black), "sparse" (two black pixels per row) or   *)
(*                  "faint" (every pixel a grey of luminance 245)          *)
(*   BorderImage    a 9px or 10px white border around an interior of one   *)
(*                  kind:                                                  *)
(*                  "full" (black), "grey" (luminance 239), "corners"      *)
(*                  (black at two opposite corners of the interior only)   *)
(*   LinePage       a page with one black horizontal line; the 800 x 1000  *)
(*                  page with a 700px line at y = 500 at one tenth of its  *)
(*                  size, which keeps y on a scanned row and the line's    *)
(*                  share of the width                                     *)
(***************************************************************************)
White == Opaque(255, 255, 255)
Black == Opaque(0, 0, 0)

CheckerSizes == {20, 21, 40, 41}

CheckerImage(w, h, x0, y0) ==
    [width |-> w, height |-> h,
     data |-> [i \in 1..(w * h) |->
                LET x == (i - 1) % w
                    y == (i - 1) \div w
                IN  IF /\ x >= x0 /\ x < x0 + blockSize
                       /\ y >= y0 /\ y < y0 + blockSize
                       /\ (x + y) % 2 = 0
                    THEN Black ELSE White]]

SolidSizes == {<<1, 1>>, <<20, 20>>, <<21, 21>>, <<41, 21>>, <<25, 45>>}

SolidImage(w, h, c) ==
    [width |-> w, height |-> h, data |-> [i \in 1..(w * h) |-> Opaque(c.r, c.g, c.b)]]

BandWidth == 20
BandHeight == 30
BandStarts == {0, 1, 7, 20, BandHeight - 1}
BandLengths == {1, 2, 3, 9}
BandKinds == {"full", "sparse", "faint", "double"}

BandImage(a, b, kind) ==
    [width |-> BandWidth, height |-> BandHeight,
     data |-> [i \in 1..(BandWidth * BandHeight) |->
                LET x == (i - 1) % BandWidth
                    y == (i - 1) \div BandWidth
                IN  IF kind = "double" /\ y >= b + 2 /\ y < 2 * b - a + 2 THEN Black
                    ELSE IF y < a \/ y >= b THEN White
                    ELSE IF kind \in {"full", "double"} THEN Black
                    ELSE IF kind = "faint" THEN Opaque(245, 245, 245)
                    ELSE IF x \in {3, 11} THEN Black ELSE White]]

BorderWidths == {9, 10}
BorderSizes == {21, 22, 30}
BorderKinds == {"full", "grey", "corners"}

BorderImage(w, h, border, kind) ==
    [width |-> w, height |-> h,
     data |-> [i \in 1..(w * h) |->
                LET x == (i - 1) % w
                    y == (i - 1) \div w
                    inside == /\ x >= border /\ x < w - border
                              /\ y >= border /\ y < h - border
                IN  IF ~inside THEN White
                    ELSE IF kind = "full" THEN Black
                    ELSE IF kind = "grey" THEN Opaque(239, 239, 239)
                    ELSE IF \/ (x = border /\ y = border)
                            \/ (x = w - border - 1 /\ y = h - border - 1)
                         THEN Black ELSE White]]

PageWidth == 80
PageHeight == 100
LineY == 50
LineLength == 70

LinePage(x0) ==
    [width |-> PageWidth, height |-> PageHeight,
     data |-> [i \in 1..(PageWidth * PageHeight) |->
                LET x == (i - 1) % PageWidth
                    y == (i - 1) \div PageWidth
                IN  IF y = LineY /\ x >= x0 /\ x < x0 + LineLength THEN Black ELSE White]]

PixelInit ==
    /\ \/ \E w \in CheckerSizes, h \in CheckerSizes :
            \E x0 \in {0, w - blockSize}, y0 \in {0, h - blockSize} :
                imageData = CheckerImage(w, h, x0, y0)
       \/ \E size \in SolidSizes, c \in 1..Len(TestColors) :
            imageData = SolidImage(size[1], size[2], TestColors[c])
       \/ \E a \in BandStarts, len \in BandLengths, kind \in BandKinds :
            /\ a + len <= BandHeight
            /\ imageData = BandImage(a, a + len, kind)
       \/ \E w \in BorderSizes, h \in BorderSizes, border \in BorderWidths,
             kind \in BorderKinds :
            imageData = BorderImage(w, h, border, kind)
       \/ \E x0 \in 0..(PageWidth - LineLength) : imageData = LinePage(x0)
    /\ pixelResults = InitialResults
    /\ rawRegions = <<>>
    /\ adjacent = <<>>
    /\ colorPalette = <<>>
    /\ stage = "input"
    /\ AnalyzerIdle

\* dimensions, extractColorPalette, detectTextRegions, analyzeLayout and
\* detectDesignElements, in this order, on one ImageData.  rawRegions keeps
\* the regions detectTextRegions handed to mergeTextRegions.
AnalyzePixels ==
    /\ stage = "input"
    /\ pixelResults' = PixelSteps(pixelResults, imageData, imageData.width, imageData.height)
    /\ rawRegions' = textRegions(imageData)
    /\ stage' = "done"
    /\ UNCHANGED <<imageData, colorPalette, adjacent>>
    /\ UNCHANGED analyzerVars

PixelNext == AnalyzePixels

PixelSpec == PixelInit /\ [][PixelNext]_vars

(***************************************************************************)
(* RunSpec: the synchronous block of analyzeImage / analyzePDF step by     *)
(* step, on a results object that is new or holds what an earlier run has  *)
(* left in it.  The buffers are white strips with checkerboard cells; the  *)
(* cells 0 and 1 are next to each other, as are 3 and 4.                   *)
(***************************************************************************)
RunWidth == 101
RunHeight == 21
RunCells == {0, 1, 3, 4}

CellsImage(cells) ==
    [width |-> RunWidth, height |-> RunHeight,
     data |-> [i \in 1..(RunWidth * RunHeight) |->
                LET x == (i - 1) % RunWidth
                    y == (i - 1) \div RunWidth
                IN  IF /\ y < blockSize
                       /\ (x \div blockSize) \in cells
                       /\ (x + y) % 2 = 0
                    THEN Black ELSE White]]

\* What the object holds when the run begins: nothing, the results of an
\* image, or the results of a PDF page (with its fonts).
EarlierResults ==
    {InitialResults,
     PixelSteps(InitialResults, CellsImage({0, 4}), RunWidth, RunHeight),
     [PixelSteps(InitialResults, CellsImage({0, 4}), RunWidth, RunHeight)
         EXCEPT !.fonts = <<"Helvetica", "Times">>]}

RunInit ==
    /\ \E cells \in SUBSET RunCells : imageData = CellsImage(cells)
    /\ pixelResults \in EarlierResults
    /\ rawRegions = <<>>
    /\ adjacent = <<>>
    /\ colorPalette = <<>>
    /\ stage = "input"
    /\ AnalyzerIdle

\* this.analysisResults.dimensions = {...}
SetDimensions ==
    /\ stage = "input"
    /\ pixelResults' = WithDimensions(pixelResults, imageData.width, imageData.height)
    /\ stage' = "dimensions"
    /\ UNCHANGED <<imageData, colorPalette, rawRegions, adjacent>>
    /\ UNCHANGED analyzerVars

\* this.extractColorPalette(imageData)
RunExtractColorPalette ==
    /\ stage = "dimensions"
    /\ pixelResults' = WithColorPalette(pixelResults, imageData)
    /\ stage' = "extractColorPalette"
    /\ UNCHANGED <<imageData, colorPalette, rawRegions, adjacent>>
    /\ UNCHANGED analyzerVars

\* this.detectTextRegions(imageData)
RunDetectTextRegions ==
    /\ stage = "extractColorPalette"
    /\ pixelResults' = WithTextRegions(pixelResults, imageData)
    /\ stage' = "detectTextRegions"
    /\ UNCHANGED <<imageData, colorPalette, rawRegions, adjacent>>
    /\ UNCHANGED analyzerVars

\* this.analyzeLayout(imageData)
RunAnalyzeLayout ==
    /\ stage = "detectTextRegions"
    /\ pixelResults' = analyzeLayout(pixelResults, imageData)
    /\ stage' = "analyzeLayout"
    /\ UNCHANGED <<imageData, colorPalette, rawRegions, adjacent>>
    /\ UNCHANGED analyzerVars

\* this.detectDesignElements(imageData)
RunDetectDesignElements ==
    /\ stage = "analyzeLayout"
    /\ pixelResults' = WithDesignElements(pixelResults, imageData)
    /\ stage' = "detectDesignElements"
    /\ UNCHANGED <<imageData, colorPalette, rawRegions, adjacent>>
    /\ UNCHANGED analyzerVars

RunNext ==
    \/ SetDimensions
    \/ RunExtractColorPalette
    \/ RunDetectTextRegions
    \/ RunAnalyzeLayout
    \/ RunDetectDesignElements

RunSpec == RunInit /\ [][RunNext]_vars

(***************************************************************************)
(* Properties of mergeTextRegions and detectGridStructure (MergeSpec).     *)
(***************************************************************************)
\* The gap between two boxes is at most 30px on both axes.
Within30(a, b) ==
    /\ b.x - (a.x + a.width) <= 30
    /\ a.x - (b.x + b.width) <= 30
    /\ b.y - (a.y + a.height) <= 30
    /\ a.y - (b.y + b.height) <= 30

Covers(m, r) ==
    /\ m.x <= r.x
    /\ m.y <= r.y
    /\ m.x + m.width >= r.x + r.width
    /\ m.y + m.height >= r.y + r.height

UnionBox(a, b) ==
    [x |-> Min(a.x, b.x), y |-> Min(a.y, b.y),
     width |-> Max(a.x + a.width, b.x + b.width) - Min(a.x, b.x),
     height |-> Max(a.y + a.height, b.y + b.height) - Min(a.y, b.y)]

SameBox(m, box) ==
    /\ m.x = box.x
    /\ m.y = box.y
    /\ m.width = box.width
    /\ m.height = box.height

MergedBlocks == pixelResults.layout.textBlocks

\* The smallest and the largest of a non-empty set of numbers.
Lowest(rows) == CHOOSE v \in rows : \A u \in rows : v <= u
Highest(rows) == CHOOSE v \in rows : \A u \in rows : v >= u

InOneBlock(i, j) ==
    \E g \in 1..Len(MergedBlocks) :
        Covers(MergedBlocks[g], rawRegions[i]) /\ Covers(MergedBlocks[g], rawRegions[j])

\* C11 as stated: any two raw blocks within 30px of each other on both axes
\* lie in one merged block, whatever other raw blocks there are.
AdjacentAlwaysMerged ==
    stage = "done" =>
        \A i, j \in 1..Len(rawRegions) :
            Within30(rawRegions[i], rawRegions[j]) => InOneBlock(i, j)

\* C11 amended: two raw blocks within 30px of each other on both axes lie in
\* one merged block provided no raw block that the scan pushed before the
\* earlier of the two is within 30px of either; when they are the only raw
\* blocks, the merged block is the union of the two boxes.
AdjacentMergedBySeed ==
    stage = "done" =>
        \A i, j \in 1..Len(rawRegions) :
            (/\ i < j
             /\ Within30(rawRegions[i], rawRegions[j])
             /\ \A k \in 1..(i - 1) :
                    /\ ~Within30(rawRegions[k], rawRegions[i])
                    /\ ~Within30(rawRegions[k], rawRegions[j]))
            => /\ InOneBlock(i, j)
               /\ Len(rawRegions) = 2 =>
                     /\ Len(MergedBlocks) = 1
                     /\ SameBox(MergedBlocks[1], UnionBox(rawRegions[i], rawRegions[j]))

\* Two blocks 20px apart, alone, have been merged into their union.
AdjacentMergedWitness ==
    /\ stage = "done"
    /\ Len(rawRegions) = 2
    /\ rawRegions[2].x - (rawRegions[1].x + rawRegions[1].width) = 20
    /\ Len(MergedBlocks) = 1
    /\ MergedBlocks[1].width = 60

RECURSIVE IsSeed(_)
\* Raw block i starts a cluster: no block that started a cluster before it
\* is within 30px of it.
IsSeed(i) == \A k \in 1..(i - 1) : IsSeed(k) => ~Within30(rawRegions[k], rawRegions[i])

Seeds == {i \in 1..Len(rawRegions) : IsSeed(i)}

\* The cluster of seed s by a single hop: s and the later blocks within 30px
\* of s itself that no earlier seed has taken.
ClusterOf(s) ==
    {s} \cup {j \in (s + 1)..Len(rawRegions) :
                /\ Within30(rawRegions[s], rawRegions[j])
                /\ \A k \in Seeds : k < s => ~Within30(rawRegions[k], rawRegions[j])}

\* The g-th seed in scan order.
SeedAt(g) == CHOOSE s \in Seeds : Cardinality({k \in Seeds : k <= s}) = g

\* The box (min x, min y, max x+width, max y+height) over the members.
BoxOver(members) ==
    LET left == Lowest({rawRegions[i].x : i \in members})
        top == Lowest({rawRegions[i].y : i \in members})
        right == Highest({rawRegions[i].x + rawRegions[i].width : i \in members})
        bottom == Highest({rawRegions[i].y + rawRegions[i].height : i \in members})
    IN  [x |-> left, y |-> top, width |-> right - left, height |-> bottom - top]

\* C25: mergeTextRegions clusters by a single hop from the seed: in scan
\* order each still-unvisited block becomes a seed and absorbs exactly the
\* later unvisited blocks adjacent to the seed itself; the output has one
\* block per seed, in seed order, spanning that cluster; a block adjacent
\* only to an absorbed member and not to the seed is left out of the cluster
\* and lies in another output block.
SingleHopClusters ==
    stage = "done" =>
        /\ Len(MergedBlocks) = Cardinality(Seeds)
        /\ \A g \in 1..Len(MergedBlocks) :
              SameBox(MergedBlocks[g], BoxOver(ClusterOf(SeedAt(g))))
        /\ \A s \in Seeds :
              \A m \in ClusterOf(s) \ {s} :
                 \A j \in (m + 1)..Len(rawRegions) :
                    (/\ Within30(rawRegions[m], rawRegions[j])
                     /\ ~Within30(rawRegions[s], rawRegions[j]))
                    => \E t \in Seeds : t # s /\ j \in ClusterOf(t)

\* Three blocks in a row, 20px apart: the first absorbed the second, and the
\* third, adjacent to the second only, is an output block of its own.
SingleHopWitness ==
    /\ stage = "done"
    /\ Len(rawRegions) = 3
    /\ Within30(rawRegions[1], rawRegions[2])
    /\ Within30(rawRegions[2], rawRegions[3])
    /\ ~Within30(rawRegions[1], rawRegions[3])
    /\ Len(MergedBlocks) = 2
    /\ SameBox(MergedBlocks[1], UnionBox(rawRegions[1], rawRegions[2]))
    /\ SameBox(MergedBlocks[2], rawRegions[3])

\* The confidence is the largest among the members' confidences.
IsMaxConfidence(confidence, members) ==
    /\ \E i \in members : rawRegions[i].confidence = confidence
    /\ \A i \in members :
          rawRegions[i].confidence.num * confidence.den
              <= confidence.num * rawRegions[i].confidence.den

\* C26: mergeTextRegions partitions the raw blocks: there are clusters, one
\* per merged block, such that every raw block is in exactly one of them,
\* and the merged block of a cluster has the box (min x, min y, max x+width,
\* max y+height) over its members and the maximum of their confidences;
\* hence every merged block has confidence in (0.3, 1] and there are no
\* more merged blocks than raw blocks.
MergePartitions ==
    stage = "done" =>
        /\ \E cluster \in [1..Len(MergedBlocks) -> (SUBSET (1..Len(rawRegions))) \ {{}}] :
              /\ \A i \in 1..Len(rawRegions) :
                    Cardinality({g \in 1..Len(MergedBlocks) : i \in cluster[g]}) = 1
              /\ \A g \in 1..Len(MergedBlocks) :
                    /\ SameBox(MergedBlocks[g], BoxOver(cluster[g]))
                    /\ IsMaxConfidence(MergedBlocks[g].confidence, cluster[g])
        /\ \A g \in 1..Len(MergedBlocks) :
              /\ 10 * MergedBlocks[g].confidence.num > 3 * MergedBlocks[g].confidence.den
              /\ MergedBlocks[g].confidence.num <= MergedBlocks[g].confidence.den
        /\ Len(MergedBlocks) <= Len(rawRegions)

\* Four raw blocks were merged into two blocks, one of which has more than
\* one member and a confidence above that of its first member.
MergePartitionsWitness ==
    /\ stage = "done"
    /\ Len(rawRegions) = 4
    /\ Len(MergedBlocks) = 2
    /\ MergedBlocks[1].width > 20
    /\ MergedBlocks[1].confidence # rawRegions[1].confidence

\* C16: with fewer than 2 merged text blocks the grid is exactly
\* {columns: 1, rows: 1, gutters: {horizontal: 0, vertical: 0}}.
GridDegenerate ==
    (stage = "done" /\ Len(MergedBlocks) < 2) =>
        /\ pixelResults.layout.grid.columns = 1
        /\ pixelResults.layout.grid.rows = 1
        /\ pixelResults.layout.grid.gutters.horizontal = Fraction(0, 1)
        /\ pixelResults.layout.grid.gutters.vertical = 0

\* Several raw blocks were merged into a single block, and the grid was
\* computed from it.
GridDegenerateWitness ==
    /\ stage = "done"
    /\ Len(rawRegions) >= 2
    /\ Len(MergedBlocks) = 1
    /\ pixelResults.layout.grid # Undefined

(***************************************************************************)
(* Properties of areRegionsAdjacent (AdjacencySpec).                       *)
(***************************************************************************)
\* The box of a region expanded by `by` pixels on every side.
Expanded(r, by) ==
    [left |-> r.x - by, right |-> r.x + r.width + by,
     top |-> r.y - by, bottom |-> r.y + r.height + by]

\* Two boxes overlap on both axes (boxes that only touch count as
\* overlapping).
BoxesOverlap(a, b) ==
    /\ a.left <= b.right
    /\ b.left <= a.right
    /\ a.top <= b.bottom
    /\ b.top <= a.bottom

\* C24: areRegionsAdjacent(r1, r2) is true exactly when the boxes of r1 and
\* r2, each expanded by 30 pixels on every side, overlap on both axes; the
\* relation is symmetric in r1 and r2.
AdjacentIffExpandedBoxesOverlap ==
    stage = "done" /\ Len(adjacent) = 2 =>
        /\ adjacent[1] = BoxesOverlap(Expanded(rawRegions[1], 30), Expanded(rawRegions[2], 30))
        /\ adjacent[1] = adjacent[2]

\* C24 amended: areRegionsAdjacent(r1, r2) is true exactly when the boxes of
\* r1 and r2 are at most 30 pixels apart on both axes, which is the box of
\* r1 expanded by 30 pixels on every side overlapping or touching the box
\* of r2 as it is; the relation is symmetric in r1 and r2.
AdjacentIffWithin30 ==
    stage = "done" /\ Len(adjacent) = 2 =>
        /\ adjacent[1] = Within30(rawRegions[1], rawRegions[2])
        /\ adjacent[1] = BoxesOverlap(Expanded(rawRegions[1], 30), Expanded(rawRegions[2], 0))
        /\ adjacent[1] = adjacent[2]

\* Two regions exactly 30 pixels apart on the x axis were found adjacent,
\* whichever was asked first.
AdjacentWitness ==
    /\ stage = "done"
    /\ Len(adjacent) = 2
    /\ rawRegions[2].x - (rawRegions[1].x + rawRegions[1].width) = 30
    /\ adjacent = <<TRUE, TRUE>>

\* The sum of the gaps between consecutive top edges of the merged blocks,
\* sorted ascending: the largest top edge minus the smallest.
TopGapSum ==
    LET tops == {MergedBlocks[i].y : i \in 1..Len(MergedBlocks)}
    IN  Highest(tops) - Lowest(tops)

\* The difference between the two smallest distinct left edges of the merged
\* blocks, rounded to the nearest 10px; 0 when there is only one.
LeftEdgeGap ==
    LET lefts == {((MergedBlocks[i].x + 5) \div 10) * 10 : i \in 1..Len(MergedBlocks)}
        rest == lefts \ {Lowest(lefts)}
    IN  IF rest = {} THEN 0 ELSE Lowest(rest) - Lowest(lefts)

\* The gutter (a fraction) is the mean of `count` gaps that add up to `sum`.
IsMean(gutter, sum, count) ==
    gutter.den # 0 /\ gutter.num * count = sum * gutter.den

\* C22: for 2 or more merged text blocks the grid's vertical gutter is the
\* mean of the gaps between consecutive top edges, and its horizontal gutter
\* is the difference between the two smallest distinct rounded left edges.
\* (In the results gutters.vertical is an integer and gutters.horizontal a
\* fraction; the mean is compared by cross-multiplication.)
GuttersAsNamed ==
    (stage = "done" /\ Len(MergedBlocks) >= 2) =>
        LET gutters == pixelResults.layout.grid.gutters
        IN  /\ gutters.vertical * (Len(MergedBlocks) - 1) = TopGapSum
            /\ IsMean(gutters.horizontal, LeftEdgeGap, 1)

\* What the code stores: the mean gap of the top edges under
\* gutters.horizontal and the gap of the left edges under gutters.vertical.
GuttersSwapped ==
    (stage = "done" /\ Len(MergedBlocks) >= 2) =>
        LET gutters == pixelResults.layout.grid.gutters
        IN  /\ IsMean(gutters.horizontal, TopGapSum, Len(MergedBlocks) - 1)
            /\ gutters.vertical = LeftEdgeGap

(***************************************************************************)
(* Properties of the pixel steps (PixelSpec).                              *)
(***************************************************************************)
Luminance1000(px) == 299 * px.r + 587 * px.g + 114 * px.b

PixelAt(x, y) == imageData.data[y * imageData.width + x + 1]

TextBlocks == pixelResults.layout.textBlocks

\* The 20x20 block at (x0, y0) is a 1px-alternating black / white
\* checkerboard, in either phase.
CheckerBlockAt(x0, y0) ==
    \E phase \in {0, 1} :
        \A dx, dy \in 0..(blockSize - 1) :
            PixelAt(x0 + dx, y0 + dy) =
                IF (dx + dy) % 2 = phase THEN Black ELSE White

HasCheckerBlock ==
    /\ imageData.width >= blockSize
    /\ imageData.height >= blockSize
    /\ \E x0 \in 0..(imageData.width - blockSize), y0 \in 0..(imageData.height - blockSize) :
          CheckerBlockAt(x0, y0)

\* C12: a buffer that contains a 20x20 checkerboard block yields at least
\* one candidate text block with confidence > 0.3, whatever its size and
\* wherever the block lies.  (A merged block carries the largest confidence
\* of the raw candidates it was merged from, and there is a merged block
\* exactly when there is a raw candidate.)
CheckerboardDetected ==
    (stage = "done" /\ HasCheckerBlock) =>
        \E k \in 1..Len(TextBlocks) :
            10 * TextBlocks[k].confidence.num > 3 * TextBlocks[k].confidence.den

IsSolid ==
    /\ Len(imageData.data) >= 1
    /\ \A i \in 1..Len(imageData.data) : imageData.data[i] = imageData.data[1]

\* C13: a buffer filled with one solid colour yields zero merged text blocks.
SolidHasNoTextBlocks ==
    (stage = "done" /\ IsSolid) => TextBlocks = <<>>

\* A solid buffer with cells to score was analysed.
SolidWitness ==
    /\ stage = "done"
    /\ IsSolid
    /\ imageData.width > 2 * blockSize
    /\ imageData.height > blockSize
    /\ TextBlocks = <<>>

AllWhite == \A i \in 1..Len(imageData.data) : imageData.data[i] = White

NonWhiteRows ==
    {y \in 0..(imageData.height - 1) :
        \E x \in 0..(imageData.width - 1) : PixelAt(x, y) # White}

\* The rows in which more than 10% of the pixels have luminance < 240.
ContentRows ==
    {y \in 0..(imageData.height - 1) :
        10 * Cardinality({x \in 0..(imageData.width - 1) :
                             Luminance1000(PixelAt(x, y)) < 240000})
            > imageData.width}

OneSection(a, b) ==
    pixelResults.layout.sections =
        <<[type |-> "content", x |-> 0, y |-> a, width |-> imageData.width,
           height |-> b - a]>>

\* The rows form one band [a, b) of the kind the claim speaks of: b is
\* below the image height and b - a is more than 5% of the height.
ClaimedBand(rows) ==
    /\ rows # {}
    /\ Highest(rows) + 1 < imageData.height
    /\ rows = Lowest(rows)..Highest(rows)
    /\ 20 * (Highest(rows) + 1 - Lowest(rows)) > imageData.height

SectionsFor(rows) ==
    /\ AllWhite => pixelResults.layout.sections = <<>>
    /\ ClaimedBand(rows) => OneSection(Lowest(rows), Highest(rows) + 1)

\* C14 as stated: zero sections for an all-white buffer, and exactly one
\* section [a, b) when the non-white pixels lie in exactly the rows [a, b).
SectionsMatchNonWhiteBand == stage = "done" => SectionsFor(NonWhiteRows)

\* C14 amended: zero sections for an all-white buffer, and exactly one
\* section [a, b) when the rows in which more than 10% of the pixels have
\* luminance < 240 are exactly the rows [a, b).
SectionsMatchContentBand == stage = "done" => SectionsFor(ContentRows)

\* A buffer with a content band in its middle was analysed into one section.
SectionsWitness ==
    /\ stage = "done"
    /\ ClaimedBand(ContentRows)
    /\ Lowest(ContentRows) = 7
    /\ OneSection(7, 16)

IsContent(x, y) == Luminance1000(PixelAt(x, y)) < 240000

\* The buffer has an all-white border of exactly 10px on all four sides:
\* the 10 outermost rows and columns are white, and the first row and
\* column inside them on each side hold content.
HasTenPixelBorder ==
    LET w == imageData.width
        h == imageData.height
    IN  /\ w > 20
        /\ h > 20
        /\ \A x \in 0..(w - 1), y \in 0..(h - 1) :
              (x < 10 \/ x >= w - 10 \/ y < 10 \/ y >= h - 10) => PixelAt(x, y) = White
        /\ \E x \in 10..(w - 11) : IsContent(x, 10)
        /\ \E x \in 10..(w - 11) : IsContent(x, h - 11)
        /\ \E y \in 10..(h - 11) : IsContent(10, y)
        /\ \E y \in 10..(h - 11) : IsContent(w - 11, y)

\* C15: with a 10px all-white border on all four sides around the content,
\* detectMargins returns top = bottom = left = right = 10.
MarginsEqualBorder ==
    (stage = "done" /\ HasTenPixelBorder) =>
        pixelResults.layout.margins = [top |-> 10, bottom |-> 10, left |-> 10, right |-> 10]

\* A bordered buffer whose content is two pixels at opposite corners of the
\* interior was analysed.
MarginsWitness ==
    /\ stage = "done"
    /\ HasTenPixelBorder
    /\ imageData.width = 22
    /\ imageData.height = 30
    /\ ~IsContent(11, 10)
    /\ pixelResults.layout.margins.bottom = 10

HexOf(swatch) == swatch.hex

\* C17, on the page at one tenth of its size: a white page whose only
\* content is one black horizontal line yields exactly one horizontal line,
\* at the line's row and of the line's length, wherever the line lies
\* horizontally, and a palette of a black and a white swatch only (the
\* white swatch being the bucket white falls into, #f0f0f0).
LinePageAnalysed ==
    stage = "done" =>
        \A x0 \in 0..(PageWidth - LineLength) :
            imageData = LinePage(x0) =>
                /\ Len(pixelResults.designElements.horizontalLines) = 1
                /\ pixelResults.designElements.horizontalLines[1].y = LineY
                /\ pixelResults.designElements.horizontalLines[1].length = LineLength
                /\ {HexOf(pixelResults.colorPalette[k]) : k \in 1..Len(pixelResults.colorPalette)}
                      = {<<"#", "0", "0", "0", "0", "0", "0">>,
                         <<"#", "f", "0", "f", "0", "f", "0">>}


\* luminance < 200
DarkPixel(x, y) == Luminance1000(PixelAt(x, y)) < 200000

\* The maximal runs of dark pixels on the scanned rows (y a multiple of 5),
\* as <<first column, row, length>>.
DarkRuns ==
    LET w == imageData.width
        starts == {c \in (0..(w - 1)) \X {y \in 0..(imageData.height - 1) : y % 5 = 0} :
                      /\ DarkPixel(c[1], c[2])
                      /\ c[1] = 0 \/ ~DarkPixel(c[1] - 1, c[2])}
        runEnd(c) == CHOOSE e \in (c[1] + 1)..w :
                        /\ \A u \in c[1]..(e - 1) : DarkPixel(u, c[2])
                        /\ e = w \/ ~DarkPixel(e, c[2])
    IN  {<<c[1], c[2], runEnd(c) - c[1]>> : c \in starts}

\* C21: detectDesignElements emits one horizontal line {x: runStart, y,
\* length, thickness: 1} for every maximal run of dark pixels on a scanned
\* row whose length exceeds 10% of the image width, runs that extend to the
\* last column included, and nothing else.
LinesAreTheLongDarkRuns ==
    stage = "done" =>
        LET lines == pixelResults.designElements.horizontalLines
            long == {r \in DarkRuns : 10 * r[3] > imageData.width}
        IN  /\ {lines[k] : k \in 1..Len(lines)} =
                  {[x |-> r[1], y |-> r[2], length |-> r[3], thickness |-> 1] : r \in long}
            /\ Len(lines) = Cardinality(long)

\* C21 for the runs that end before the last column only.
LinesAreTheLongInnerRuns ==
    stage = "done" =>
        LET lines == pixelResults.designElements.horizontalLines
            long == {r \in DarkRuns : 10 * r[3] > imageData.width
                                       /\ r[1] + r[3] < imageData.width}
        IN  /\ {lines[k] : k \in 1..Len(lines)} =
                  {[x |-> r[1], y |-> r[2], length |-> r[3], thickness |-> 1] : r \in long}
            /\ Len(lines) = Cardinality(long)

\* The 20x20 cells at (20i, 20j) whose footprint lies within the buffer
\* (20i + 20 <= width and 20j + 20 <= height), as <<x, y>>.
CellsWithinBuffer ==
    {c \in (0..imageData.width) \X (0..imageData.height) :
        /\ c[1] % 20 = 0
        /\ c[2] % 20 = 0
        /\ c[1] + 20 <= imageData.width
        /\ c[2] + 20 <= imageData.height}

\* The cells the two loops reach: the ones that leave at least one more
\* column and one more row after their footprint.
CellsShortOfEdges ==
    {c \in CellsWithinBuffer :
        c[1] + 20 < imageData.width /\ c[2] + 20 < imageData.height}

\* The raw regions are the cells of the set whose score is above 0.3.
RawRegionsAreTheTextCellsOf(cellSet) ==
    {rawRegions[i] : i \in 1..Len(rawRegions)} =
        {[x |-> c[1], y |-> c[2], width |-> 20, height |-> 20,
          confidence |-> calculateTextScore(imageData.data, c[1], c[2], 20, imageData.width)] :
            c \in {d \in cellSet :
                      FracGreater(calculateTextScore(imageData.data, d[1], d[2], 20,
                                                     imageData.width),
                                  Fraction(3, 10))}}

\* C23: detectTextRegions scores every 20x20 cell at (20i, 20j) whose
\* footprint lies within the buffer, cells flush with the right or bottom
\* edge included, and skips only cells whose footprint exceeds the buffer:
\* the raw regions are exactly the cells within the buffer that score above
\* the threshold.
EveryCellWithinBufferScored ==
    stage = "done" => RawRegionsAreTheTextCellsOf(CellsWithinBuffer)

\* The same for the cells that stop short of the right and bottom edges.
EveryCellShortOfEdgesScored ==
    stage = "done" => RawRegionsAreTheTextCellsOf(CellsShortOfEdges)

\* The maximal runs of rows among `rows`, as <<first row, row after the
\* last>>.
RowRuns(rows) ==
    LET h == imageData.height
        runEnd(a) == CHOOSE b \in (a + 1)..h :
                        /\ \A u \in a..(b - 1) : u \in rows
                        /\ b = h \/ b \notin rows
    IN  {<<a, runEnd(a)>> : a \in {r \in rows : (r - 1) \notin rows}}

\* The sections are the runs of `rows` that are kept: a run that ends above
\* the bottom edge when it is higher than 5% of the image height, a run
\* still open at the last row whatever its height; each spans the full
\* width; they are in ascending order and do not overlap.
SectionsAreTheRunsOf(rows) ==
    LET sections == pixelResults.layout.sections
        kept == {r \in RowRuns(rows) :
                    r[2] = imageData.height \/ 20 * (r[2] - r[1]) > imageData.height}
    IN  /\ {sections[k] : k \in 1..Len(sections)} =
              {[type |-> "content", x |-> 0, y |-> r[1], width |-> imageData.width,
                height |-> r[2] - r[1]] : r \in kept}
        /\ Len(sections) = Cardinality(kept)
        /\ \A k \in 1..(Len(sections) - 1) :
              sections[k].y + sections[k].height <= sections[k + 1].y

\* C27: in detectSections a row has content when more than 10% of its
\* pixels have luminance < 240; a maximal run of content rows that ends
\* above the bottom edge becomes a section only when its height is > 5% of
\* the image height, a run still open at the last row is always emitted as
\* the final section; the sections span the full width, are in ascending y
\* order and never overlap.
SectionsAreTheContentRuns ==
    stage = "done" => SectionsAreTheRunsOf(ContentRows)

\* A run of one content row at the bottom of a 30-row buffer (less than 5%
\* of its height) was emitted as the only section.
TrailingRunWitness ==
    /\ stage = "done"
    /\ imageData.height >= 30
    /\ ContentRows = {imageData.height - 1}
    /\ Len(pixelResults.layout.sections) = 1
    /\ pixelResults.layout.sections[1].height = 1

\* Two runs of content rows above the bottom edge, neither higher than 5%
\* of the image, were discarded.
ShortRunWitness ==
    /\ stage = "done"
    /\ Cardinality(RowRuns(ContentRows)) = 2
    /\ (imageData.height - 1) \notin ContentRows
    /\ pixelResults.layout.sections = <<>>

\* Two runs of content rows were emitted as two sections.
TwoSectionsWitness ==
    /\ stage = "done"
    /\ Len(pixelResults.layout.sections) = 2

(***************************************************************************)
(* Properties of the lifecycle (Spec): suspension points of one run.       *)
(***************************************************************************)
\* The call has run the first pixel step: its pixel buffer has been obtained.
PixelBufferObtained(c) ==
    \E i \in 1..Len(c.steps) : c.steps[i] = PixelStepNames[1]

\* C20: once a run has obtained its pixel buffer it reaches its result with
\* no further suspension point: while a call has run its first pixel step
\* and has not returned, no other call starts and no other call takes a
\* step, for image and for PDF input alike.
NoSuspensionAfterPixels ==
    [][\A k \in 1..Len(calls) :
          (Pending(calls[k]) /\ PixelBufferObtained(calls[k])) =>
              /\ Len(calls') = Len(calls)
              /\ \A j \in 1..Len(calls) :
                    j # k => /\ calls'[j].pc = calls[j].pc
                             /\ calls'[j].steps = calls[j].steps]_vars


(***************************************************************************)
(* Properties of the lifecycle (Spec): what the application hands to the   *)
(* analyzer.                                                               *)
(***************************************************************************)
\* C19: the application never calls analyzeTemplate with a file whose MIME
\* type is outside {image/jpeg, image/jpg, image/png, application/pdf} or
\* whose size exceeds 10MB, whether the file came by the file input or by a
\* drop.
AppHandsValidFilesOnly ==
    \A k \in 1..Len(calls) :
        calls[k].via = "app" =>
            /\ \/ calls[k].type = [major |-> "image", minor |-> "jpeg"]
               \/ calls[k].type = [major |-> "image", minor |-> "jpg"]
               \/ calls[k].type = [major |-> "image", minor |-> "png"]
               \/ calls[k].type = [major |-> "application", minor |-> "pdf"]
            /\ calls[k].size <= 10 * 1024 * 1024

\* A file of exactly 10MB is being analysed for the application, and a file
\* dropped meanwhile was refused: the error is shown, the loading overlay of
\* the call in flight is still up, and no second call was made.
AppHandsValidWitness ==
    /\ Len(calls) = 1
    /\ calls[1].via = "app"
    /\ Pending(calls[1])
    /\ calls[1].size = 10 * 1024 * 1024
    /\ Len(notification) = 1
    /\ notification[1].type = "error"
    /\ loading


(***************************************************************************)
(* Properties of the preview (PreviewSpec).                                *)
(***************************************************************************)
\* The colours the stylesheet gives a page on which none was set, which are
\* the ones of the default template.
DefaultColour(colour, rank) ==
    colour = Unset \/ colour = defaultTemplate.colorPalette[rank].hex

\* C18: whenever the preview shows the resume rendered with a template
\* analysis whose colour palette is empty, the page has the default
\* colours, whichever templates were applied to the preview before.
EmptyPaletteGivesDefaultColours ==
    (/\ resumePage.content = "resume"
     /\ templateAnalysis # NoObject
     /\ heap[templateAnalysis].colorPalette = <<>>)
        => /\ DefaultColour(resumePage.primaryColor, 1)
           /\ DefaultColour(resumePage.secondaryColor, 2)


(***************************************************************************)
(* Properties of the steps of one run (RunSpec).                           *)
(***************************************************************************)
\* C28: data flows forward within a run.  Each sub-analysis writes its own
\* field of the result only: extractColorPalette colorPalette,
\* detectTextRegions layout.textBlocks, analyzeLayout layout.sections,
\* layout.grid and layout.margins, detectDesignElements designElements; and
\* the grid analyzeLayout writes is computed from the merged text blocks
\* that detectTextRegions has written for the buffer of this run.
DataFlowsForward ==
    [][/\ stage' = "extractColorPalette" =>
            pixelResults' = [pixelResults EXCEPT !.colorPalette = pixelResults'.colorPalette]
       /\ stage' = "detectTextRegions" =>
            /\ pixelResults' =
                  [pixelResults EXCEPT !.layout.textBlocks = pixelResults'.layout.textBlocks]
            /\ pixelResults'.layout.textBlocks = detectTextRegions(imageData)
       /\ stage' = "analyzeLayout" =>
            /\ pixelResults' =
                  [pixelResults EXCEPT !.layout.sections = pixelResults'.layout.sections,
                                       !.layout.grid = pixelResults'.layout.grid,
                                       !.layout.margins = pixelResults'.layout.margins]
            /\ pixelResults'.layout.grid =
                  detectGridStructure(detectTextRegions(imageData))
       /\ stage' = "detectDesignElements" =>
            pixelResults' =
                [pixelResults EXCEPT !.designElements = pixelResults'.designElements]
      ]_vars

\* A run on a results object that an earlier PDF run with two text blocks
\* had filled: the run has written its one text block and the grid of one
\* block, the fonts of the earlier run being where they were.
DataFlowsForwardWitness ==
    /\ stage = "detectDesignElements"
    /\ pixelResults.fonts = <<"Helvetica", "Times">>
    /\ Len(pixelResults.layout.textBlocks) = 1
    /\ pixelResults.layout.grid.columns = 1
    /\ pixelResults.designElements.horizontalLines = <<>>


(***************************************************************************)
(* Properties of the lifecycle (Spec): the template the application and    *)
(* the preview hold, and how processTemplateFile ends.                     *)
(***************************************************************************)
\* C29: app.currentTemplate and previewEngine.templateAnalysis agree: both
\* are unset or both refer to the same template configuration, so that the
\* preview never has a template the application reports as absent.
TemplateReferencesAgree == currentTemplate = templateAnalysis

\* The processTemplateFile call that made the analyzer call k ends in this
\* step: the call is the application's and is settled after the step, having
\* been in flight, or not yet made, before it.
EndsIn(k) ==
    /\ calls'[k].via = "app"
    /\ ~Pending(calls'[k])
    /\ (k > Len(calls) \/ Pending(calls[k]))

\* The step shows the error of processTemplateFile's catch.
ShowsAnalysisFailure ==
    /\ notification' # notification
    /\ \E i \in 1..Len(notification') :
          notification'[i].message = <<"Failed to analyze template. Please try a different file.">>

\* C30: however a processTemplateFile call ends (its file refused by the
\* validation, its analysis failed, or its analysis done), the loading
\* indicator is hidden then and the handler has shown exactly one
\* notification, a success when the analysis was done and an error otherwise;
\* the error of handleTemplateUpload and handleDrop for a failure thrown on to
\* them is never shown; and a call that failed leaves app.currentTemplate,
\* the preview engine's templateAnalysis and the rendered page as they were.
ProcessTemplateFileEndsCleanly ==
    [][ /\ \A k \in 1..Len(calls') :
             EndsIn(k) =>
                /\ loading' = FALSE
                /\ Len(notification') = 1
                /\ notification'[1].type =
                      IF calls'[k].promise = "fulfilled" THEN "success" ELSE "error"
                /\ calls'[k].promise # "fulfilled" =>
                      UNCHANGED <<currentTemplate, templateAnalysis, resumePage>>
        /\ ShowsAnalysisFailure =>
             /\ loading' = FALSE
             /\ Len(notification') = 1
             /\ notification'[1].type = "error"
             /\ UNCHANGED <<currentTemplate, templateAnalysis, resumePage>>
        /\ \A i \in 1..Len(notification') :
             notification'[i].message # <<"Failed to process template file. Please try again.">>
      ]_vars

\* A second upload failed after a first was analysed: the one error of
\* processTemplateFile is shown, the loading indicator is hidden, and the
\* application and the preview still hold the result of the first.
ProcessTemplateFileFailedWitness ==
    /\ Len(calls) = 2
    /\ calls[1].via = "app" /\ calls[1].promise = "fulfilled"
    /\ calls[2].via = "app" /\ calls[2].promise = "rejected"
    /\ notification =
          <<Note("error", <<"Failed to analyze template. Please try a different file.">>)>>
    /\ ~loading
    /\ currentTemplate = calls[1].value
    /\ templateAnalysis = calls[1].value

====
